---- MODULE Spec2Model ----
(***************************************************************************)
(* Model of the UptimeFlare AWS aggregator Lambda (majority voting, the    *)
(* per-monitor state machine, the incident lifecycle and the notification  *)
(* gating) as one state machine whose step is one scheduled invocation of  *)
(* the aggregator handler.                                                 *)
(*                                                                         *)
(* Timestamps are epoch milliseconds.  JavaScript `undefined` in a numeric *)
(* field is the value `undefined` below; `null` stands for a missing       *)
(* store item.  Store accesses succeed (no DynamoDB or network fault is    *)
(* injected in Spec).                                                      *)
(***************************************************************************)
EXTENDS Integers, Sequences, FiniteSets, TLC

\* ------------------------------------------------------------------ bounds
\* number of aggregator invocations in a behaviour
MaxTicks == 5
\* largest number of regions of a monitor in the voting specification
MaxRegions == 4

\* ------------------------------------------------- constants of the program
\* check_interval_minutes = 1: the scheduler fires once per minute
TickMs == 60000
\* (monitor.alerting?.slowGracePeriod || 3)
DefaultSlowGrace == 3
\* the thresholdPercent of the documented spike configuration
SpikeThresholdPercent == 200
\* the latencyThreshold of the documented monitor configuration
LatencyThreshold == 500

\* windowMs: number = 90000
WindowMs == 90000
\* Limit: 5 of the query of getRecentCheckResults
QueryLimit == 5
\* response.Items.length > 5
BaselineMoreThan == 5
\* the baselineWindowMinutes of the documented spike configuration
BaselineWindowMinutes == 30

\* ------------------------------------------------------- JavaScript values
undefined == -1
null == [null |-> TRUE]
IsNull(x) == DOMAIN x = {"null"}
\* truthiness of an optional number: undefined and 0 are falsy
Truthy(n) == n # undefined /\ n # 0
\* a || d
OrElse(n, d) == IF Truthy(n) THEN n ELSE d
\* Math.floor in the place of Math.ceil
CeilHalfFloor(n) == n \div 2
\* Math.ceil(n / 2)
CeilHalf(n) == (n + 1) \div 2

Max(S) == CHOOSE x \in S : \A y \in S : y <= x

\* ------------------------------------------------------------------ inputs
AllRegions == <<"A", "B", "C", "D", "E", "F">>
RegionSet(regions) == {regions[i] : i \in DOMAIN regions}
\* latencies a check reports: one below and one above LatencyThreshold
FastLatency == 200
SlowLatency == 700
\* a median getBaselineLatency can return
BaselineLatency == 100

\* A list getRecentCheckResults can return: the regions of the monitor in
\* configuration order, a region left out when the function found no record
\* for it.  obs maps each region to "absent" (left out), "up" or "down"; lat
\* is the latency of the primary region's record.
CheckResultOf(monitor, obs, lat, r) ==
  [region |-> r,
   status |-> obs[r],
   latency |-> IF r = monitor.primaryRegion THEN lat ELSE FastLatency,
   error |-> IF obs[r] = "down" THEN "timeout" ELSE ""]

RECURSIVE CheckResultsFrom(_, _, _, _)
CheckResultsFrom(monitor, obs, lat, i) ==
  IF i > Len(monitor.regions) THEN <<>>
  ELSE LET r == monitor.regions[i]
           rest == CheckResultsFrom(monitor, obs, lat, i + 1)
       IN IF obs[r] = "absent" THEN rest
          ELSE <<CheckResultOf(monitor, obs, lat, r)>> \o rest

CheckResultsOf(monitor, obs, lat) == CheckResultsFrom(monitor, obs, lat, 1)

\* ----------------------------------------------------------------- the table
\* All items live in one table; the partition key of an item names its kind
\* and the monitor.  The model keeps the items of each kind in a variable of
\* their own (checkItems, latencyItems, stateItems, incidentItems,
\* globalState) and records the partition key of every write in writes.
\* `CHECK#${monitorId}`
CheckPk(monitorId) == <<"CHECK", monitorId>>
\* `LATENCY#${monitorId}#${region}`
LatencyPk(monitorId, region) == <<"LATENCY", monitorId, region>>
\* `STATE#${monitor.id}`
StatePk(monitorId) == <<"STATE", monitorId>>
\* `INCIDENT#${monitorId}`
IncidentPk(monitorId) == <<"INCIDENT", monitorId>>
\* the summary under a key of the checkers
GlobalPkAmongChecks == <<"CHECK", "GLOBAL">>
\* 'STATE#GLOBAL'
GlobalPk == <<"STATE", "GLOBAL">>
\* the entries of the write log for the partition keys a component wrote
Written(by, pks) == {[by |-> by, pk |-> pk] : pk \in pks}

RegionIndex(region) == CHOOSE i \in DOMAIN AllRegions : AllRegions[i] = region
\* the order of the sort keys `${timestamp}#${region}` of CHECK items: epoch
\* milliseconds have the same number of digits, so the strings are ordered
\* by timestamp and then by region name
SkBefore(a, b) ==
  \/ a.timestamp < b.timestamp
  \/ a.timestamp = b.timestamp /\ RegionIndex(a.region) < RegionIndex(b.region)

RECURSIVE Descending(_, _)
\* ScanIndexForward: false, Limit: limit -- the items of a query result from
\* the greatest sort key down, cut after limit items
Descending(items, limit) ==
  IF items = {} \/ limit = 0 THEN <<>>
  ELSE LET top == CHOOSE x \in items : \A y \in items \ {x} : SkBefore(y, x)
       IN <<top>> \o Descending(items \ {top}, limit - 1)

\* pk = `CHECK#${monitorId}` AND sk > `${cutoff}#`: a sort key with the
\* cutoff's own timestamp is longer than `${cutoff}#` and so greater
QueryCheck(items, monitorId, cutoff) ==
  {item \in items : item.monitorId = monitorId /\ item.timestamp >= cutoff}

RECURSIVE RecentFrom(_, _, _)
\* the loop over the regions: the first item of the page with the region
RecentFrom(page, regions, i) ==
  IF i > Len(regions) THEN <<>>
  ELSE LET regionResults == SelectSeq(page, LAMBDA item : item.region = regions[i])
       IN (IF Len(regionResults) > 0 THEN <<regionResults[1]>> ELSE <<>>) \o
          RecentFrom(page, regions, i + 1)

\* Every region's query is the same query (the key condition does not name
\* the region), so every iteration filters the same page.
getRecentCheckResults(items, monitor, timestamp) ==
  LET cutoff == timestamp - WindowMs
      page == Descending(QueryCheck(items, monitor.id, cutoff), QueryLimit)
  IN RecentFrom(page, monitor.regions, 1)

RECURSIVE SortedLatencies(_)
\* .map((item) => item.latency).sort((a, b) => a - b)
SortedLatencies(items) ==
  IF items = {} THEN <<>>
  ELSE LET least == CHOOSE x \in items :
                      \A y \in items \ {x} :
                        \/ x.latency < y.latency
                        \/ x.latency = y.latency /\ x.timestamp <= y.timestamp
       IN <<least.latency>> \o SortedLatencies(items \ {least})

\* pk = `LATENCY#${monitorId}#${region}` AND sk > `${cutoff}`; the median of
\* the latencies when there are more than 5, null (here undefined)
\* otherwise.  The latencies of the model are even numbers, so the mean of
\* the two middle ones is an integer.
getBaselineLatency(items, monitorId, region, windowMinutes, timestamp) ==
  LET cutoff == timestamp - windowMinutes * 60 * 1000
      found == {item \in items : /\ item.monitorId = monitorId
                                  /\ item.region = region
                                  /\ item.timestamp > cutoff}
      latencies == SortedLatencies(found)
      mid == Len(latencies) \div 2
  IN IF Len(latencies) > BaselineMoreThan
     THEN IF Len(latencies) % 2 = 1 THEN latencies[mid + 1]
          ELSE (latencies[mid] + latencies[mid + 1]) \div 2
     ELSE undefined

\* --------------------------------------------------------- aggregateResults
\* regionStatuses[result.region] = {...} for each result, later ones winning
RegionStatusesOf(checkResults) ==
  [r \in {checkResults[i].region : i \in DOMAIN checkResults} |->
     LET i == Max({j \in DOMAIN checkResults : checkResults[j].region = r})
     IN [status |-> checkResults[i].status,
         latency |-> checkResults[i].latency,
         error |-> checkResults[i].error]]

\* monitor.alerting?.downVoteThreshold || Math.ceil(totalRegions / 2)
voteThreshold(monitor) ==
  OrElse(monitor.alerting.downVoteThreshold, CeilHalf(Len(monitor.regions)))

aggregateResults(monitor, checkResults) ==
  LET regionStatuses == RegionStatusesOf(checkResults)
      regionsUp == Cardinality({r \in DOMAIN regionStatuses : regionStatuses[r].status = "up"})
      regionsDown == Cardinality({r \in DOMAIN regionStatuses : regionStatuses[r].status = "down"})
      majorityStatus == IF regionsDown >= voteThreshold(monitor) THEN "down" ELSE "up"
      primaryLatency ==
        IF monitor.primaryRegion \in DOMAIN regionStatuses
        THEN OrElse(regionStatuses[monitor.primaryRegion].latency, 0)
        ELSE 0
      \* primaryStatus?.timing || emptyTiming; a result the checker wrote
      \* has a timing, a result without one gets emptyTiming in the loop
      primaryResults == {j \in DOMAIN checkResults :
                           checkResults[j].region = monitor.primaryRegion}
      primaryTiming ==
        IF primaryResults # {} /\ "timing" \in DOMAIN checkResults[Max(primaryResults)]
        THEN checkResults[Max(primaryResults)].timing
        ELSE [dnsLookup |-> 0, tcpConnect |-> 0, tlsHandshake |-> 0, ttfb |-> 0,
              contentDownload |-> 0, total |-> 0]
      status == IF majorityStatus = "down" THEN "down"
                ELSE IF regionsDown > 0 THEN "degraded"
                ELSE "up"
      \* the joined "<region>: <error>" strings of the down regions; {} is
      \* the undefined error of an up status
      error == IF status # "up"
               THEN {<<r, regionStatuses[r].error>> :
                       r \in {x \in DOMAIN regionStatuses : regionStatuses[x].status = "down"}}
               ELSE {}
  IN [monitorId |-> monitor.id,
      status |-> status,
      primaryRegion |-> monitor.primaryRegion,
      primaryLatency |-> primaryLatency,
      primaryTiming |-> primaryTiming,
      regionStatuses |-> regionStatuses,
      regionsUp |-> regionsUp,
      regionsDown |-> regionsDown,
      majorityStatus |-> majorityStatus,
      error |-> error]

\* -------------------------------------------------------- updateMonitorState
\* regionStatuses of the stored item keeps status and latency only
StoredRegionStatuses(regionStatuses) ==
  [r \in DOMAIN regionStatuses |->
     [status |-> regionStatuses[r].status, latency |-> regionStatuses[r].latency]]

\* previousState?.status || 'up'
previousStatusOf(previousState) ==
  IF IsNull(previousState) THEN "up" ELSE previousState.status

\* previousState?.<field>
Opt(previousState, field) ==
  IF IsNull(previousState) THEN undefined ELSE previousState[field]

\* downSince cleared on 'up' only
downSinceKeptWhenDegraded(aggregated, previousState, timestamp) ==
  IF aggregated.status = "down" /\ previousStatusOf(previousState) # "down"
  THEN timestamp
  ELSE IF aggregated.status = "up" THEN undefined
  ELSE Opt(previousState, "downSince")

downSinceOf(aggregated, previousState, timestamp) ==
  IF aggregated.status = "down" /\ previousStatusOf(previousState) # "down"
  THEN timestamp
  ELSE IF aggregated.status # "down" THEN undefined
  ELSE Opt(previousState, "downSince")

\* slowSince set on every slow invocation
slowSinceRestarted(monitor, aggregated, previousState, timestamp) ==
  IF Truthy(monitor.latencyThreshold) /\ aggregated.primaryLatency > monitor.latencyThreshold
  THEN timestamp
  ELSE undefined

slowSinceOf(monitor, aggregated, previousState, timestamp) ==
  IF Truthy(monitor.latencyThreshold) /\ aggregated.primaryLatency > monitor.latencyThreshold
  THEN IF ~Truthy(Opt(previousState, "slowSince")) THEN timestamp
       ELSE Opt(previousState, "slowSince")
  ELSE undefined

\* the item of the PutCommand and the stateChanged flag
updateMonitorState(monitor, aggregated, previousState, timestamp) ==
  [stateChanged |-> previousStatusOf(previousState) # aggregated.status,
   newState |->
     [monitorId |-> monitor.id,
      status |-> aggregated.status,
      primaryLatency |-> aggregated.primaryLatency,
      regionStatuses |-> StoredRegionStatuses(aggregated.regionStatuses),
      lastCheck |-> timestamp,
      downSince |-> downSinceOf(aggregated, previousState, timestamp),
      slowSince |-> slowSinceOf(monitor, aggregated, previousState, timestamp),
      lastNotifiedDown |-> Opt(previousState, "lastNotifiedDown"),
      lastNotifiedSlow |-> Opt(previousState, "lastNotifiedSlow")]]

\* ------------------------------------------------------------ updateIncident
\* The incident items of one monitor are a set of records keyed by start
\* (the sort key).  Epoch-millisecond sort keys have the same number of
\* digits, so their string order is the numeric order of start.
\* the open branch writing the item only when its sort key is new
updateIncidentCreateOnly(incs, status, error, downSince, regionsDown, timestamp) ==
  IF status = "down" /\ Truthy(downSince)
  THEN IF \E i \in incs : i.start = downSince THEN incs
       ELSE incs \cup
         {[start |-> downSince,
           end |-> undefined,
           error |-> IF error # {} THEN error ELSE {<<"", "Unknown error">>},
           regionsDown |-> regionsDown]}
  ELSE IF status = "up"
  THEN IF incs = {} THEN incs
       ELSE LET incident == CHOOSE i \in incs : i.start = Max({j.start : j \in incs})
            IN IF ~Truthy(incident.end)
               THEN (incs \ {incident}) \cup {[incident EXCEPT !.end = timestamp]}
               ELSE incs
  ELSE incs

\* the close branch without the test of incident.end
updateIncidentNoEndTest(incs, status, error, downSince, regionsDown, timestamp) ==
  IF status = "down" /\ Truthy(downSince)
  THEN {i \in incs : i.start # downSince} \cup
         {[start |-> downSince,
           end |-> undefined,
           error |-> IF error # {} THEN error ELSE {<<"", "Unknown error">>},
           regionsDown |-> regionsDown]}
  ELSE IF status = "up"
  THEN IF incs = {} THEN incs
       ELSE LET incident == CHOOSE i \in incs : i.start = Max({j.start : j \in incs})
            IN (incs \ {incident}) \cup {[incident EXCEPT !.end = timestamp]}
  ELSE incs

updateIncident(incs, status, error, downSince, regionsDown, timestamp) ==
  IF status = "down" /\ Truthy(downSince)
  THEN \* PutCommand: replaces the item with this sort key
       {i \in incs : i.start # downSince} \cup
         {[start |-> downSince,
           end |-> undefined,
           error |-> IF error # {} THEN error ELSE {<<"", "Unknown error">>},
           regionsDown |-> regionsDown]}
  ELSE IF status = "up"
  THEN \* Query ScanIndexForward: false, Limit: 1, then UpdateCommand SET end
       IF incs = {} THEN incs
       ELSE LET incident == CHOOSE i \in incs : i.start = Max({j.start : j \in incs})
            IN IF ~Truthy(incident.end)
               THEN (incs \ {incident}) \cup {[incident EXCEPT !.end = timestamp]}
               ELSE incs
  ELSE incs

\* --------------------------------------------------------- updateGlobalState
\* states is the handler's Map: monitor id -> newState, null when the
\* monitor was not processed in this invocation
CountStatus(monitors, states, which) ==
  Cardinality({i \in DOMAIN monitors :
     LET state == states[monitors[i].id]
     IN IF which = "up"
        THEN IsNull(state) \/ state.status \notin {"down", "degraded"}
        ELSE ~IsNull(state) /\ state.status = which})

updateGlobalState(monitors, states, timestamp) ==
  [overallUp |-> CountStatus(monitors, states, "up"),
   overallDown |-> CountStatus(monitors, states, "down"),
   overallDegraded |-> CountStatus(monitors, states, "degraded"),
   lastUpdate |-> timestamp]

\* ------------------------------------------------------------------ messages
\* A message is modelled by what identifies it: its kind, the monitor and
\* the timestamp in its text; kind "" is the empty string the formatters
\* return when no branch applies.
Msg(kind, monitor, timestamp) == [kind |-> kind, monitorId |-> monitor.id, t |-> timestamp]

formatNotificationMessage(monitor, isUp, downSince, timestamp) ==
  IF isUp /\ Truthy(downSince) THEN Msg("up", monitor, timestamp)
  ELSE IF ~isUp THEN Msg("down", monitor, timestamp)
  ELSE Msg("", monitor, timestamp)

formatLatencyMessage(monitor, isSlow, slowSince, timestamp) ==
  IF isSlow THEN Msg("slow", monitor, timestamp)
  ELSE IF Truthy(slowSince) THEN Msg("fast", monitor, timestamp)
  ELSE Msg("", monitor, timestamp)

\* the spike message always names the whole response
formatSpikeMessageOverall(monitor, timing, timestamp) ==
  Msg("spike", monitor, timestamp) @@ [spikeCause |-> "overall response"]
\* formatSpikeMessage: the message names the phase that caused the spike;
\* ttfb > total * 0.7 with both sides times 10
formatSpikeMessage(monitor, timing, timestamp) ==
  Msg("spike", monitor, timestamp) @@
  [spikeCause |->
     IF timing.dnsLookup > 100 THEN "DNS resolution"
     ELSE IF timing.tlsHandshake > 200 THEN "TLS handshake (possible CPU load)"
     ELSE IF timing.ttfb * 10 > timing.total * 7 THEN "server response (TTFB)"
     ELSE "overall response"]

\* invocations of the aggregator that read a table filled by the checkers
MaxStoreTicks == 1
\* the invocations before them found the table empty: more than the
\* baseline window of 30 minutes
StoreStartTicks == 40
\* LATENCY samples of the primary region inside the baseline window
MaxSamples == 7
\* runs of the regional checkers
MaxRuns == 1

\* ------------------------------------------------------------------- handler
VARIABLES
  monitors,            \* MONITORS_CONFIG: the list of MonitorTarget
  notificationConfig,  \* NOTIFICATION_CONFIG, null when not set
  now,                 \* Date.now() of the latest invocation, 0 before the first
  stateItems,          \* store, STATE#<id>/CURRENT: id -> MonitorStateItem or null
  incidentItems,       \* store, INCIDENT#<id>: id -> set of IncidentItem
  globalState,         \* store, STATE#GLOBAL/SUMMARY or null
  checkResults,        \* id -> the list getRecentCheckResults finds for the monitor in the latest invocation
  aggregated,          \* id -> AggregatedResult of the latest invocation, null if skipped
  notifications,       \* the handler's notifications list of the latest invocation
  sent,                \* every message sendNotification took up so far
  requests,            \* every webhook request sendNotification issued so far
  invocations,         \* the aggregator invocations in flight: where each is
                       \* in the handler and the locals it holds
  faults,              \* id -> the store command that threw for the monitor in the latest invocation
  writes,              \* the write log: who wrote which partition key so far
  checkItems,          \* store, CHECK#<id>: set of CheckResultItem
  latencyItems,        \* store, LATENCY#<id>#<region>: set of LatencyHistoryItem
  probe,               \* the latest run of a regional checker: region, timestamp; null before the first
  tasks,               \* id -> the task of the latest checker run for the monitor
  summary,             \* what the latest checker run returned, null while it runs
  response,            \* what the API handler returned to the latest request, null before the first
  page                 \* what a status page loaded from the backend last, null before the first load

vars == <<monitors, notificationConfig, now, stateItems, incidentItems,
          globalState, checkResults, aggregated, notifications, sent, requests,
          invocations, faults, writes, checkItems, latencyItems, probe, tasks, summary, response, page>>

\* what the checker owns, and what the aggregator owns
checkerVars == <<checkItems, latencyItems, probe, tasks, summary>>
aggregatorVars == <<now, stateItems, incidentItems, globalState, checkResults,
                    aggregated, notifications, sent, requests, invocations, faults>>

MonitorIds == {monitors[i].id : i \in DOMAIN monitors}

\* notificationConfig.skipNotificationIds?.includes(monitor.id)
skipNotify(monitor, config) == monitor.id \in config.skipNotificationIds

\* (notificationConfig.gracePeriod || 0) * 60 * 1000
gracePeriodMs(config) == OrElse(config.gracePeriod, 0) * 60 * 1000

\* (monitor.alerting?.slowGracePeriod || 3) * 60 * 1000
slowGracePeriodMs(monitor) == OrElse(monitor.alerting.slowGracePeriod, DefaultSlowGrace) * 60 * 1000

\* the DOWN branch without the comparison with the grace period
downNotifiedNoGrace(monitor, config, agg, upd, timestamp) ==
  /\ upd.stateChanged
  /\ ~IsNull(config)
  /\ ~skipNotify(monitor, config)
  /\ agg.status = "down"
  /\ \/ ~Truthy(upd.newState.lastNotifiedDown)
     \/ upd.newState.lastNotifiedDown < OrElse(upd.newState.downSince, 0)

\* the DOWN branch without the comparison of lastNotifiedDown with downSince
downNotifiedOnce(monitor, config, agg, upd, timestamp) ==
  /\ upd.stateChanged
  /\ ~IsNull(config)
  /\ ~skipNotify(monitor, config)
  /\ agg.status = "down"
  /\ timestamp - OrElse(upd.newState.downSince, timestamp) >= gracePeriodMs(config)
  /\ ~Truthy(upd.newState.lastNotifiedDown)

\* the DOWN branch without the test of the aggregated status
downNotifiedAnyStatus(monitor, config, agg, upd, timestamp) ==
  /\ upd.stateChanged
  /\ ~IsNull(config)
  /\ ~skipNotify(monitor, config)
  /\ timestamp - OrElse(upd.newState.downSince, timestamp) >= gracePeriodMs(config)
  /\ \/ ~Truthy(upd.newState.lastNotifiedDown)
     \/ upd.newState.lastNotifiedDown < OrElse(upd.newState.downSince, 0)

\* lines 1205-1231: the DOWN notification is queued and lastNotifiedDown SET
downNotified(monitor, config, agg, upd, timestamp) ==
  /\ upd.stateChanged
  /\ ~IsNull(config)
  /\ ~skipNotify(monitor, config)
  /\ agg.status = "down"
  /\ timestamp - OrElse(upd.newState.downSince, timestamp) >= gracePeriodMs(config)
  /\ \/ ~Truthy(upd.newState.lastNotifiedDown)
     \/ upd.newState.lastNotifiedDown < OrElse(upd.newState.downSince, 0)

\* the UP branch without the test of previousState.lastNotifiedDown
upNotifiedUnconditional(monitor, config, agg, upd, previousState) ==
  /\ upd.stateChanged
  /\ ~IsNull(config)
  /\ ~skipNotify(monitor, config)
  /\ agg.status = "up"
  /\ ~IsNull(previousState)
  /\ previousState.status = "down"

\* lines 1233-1246: the UP notification is queued
upNotified(monitor, config, agg, upd, previousState) ==
  /\ upd.stateChanged
  /\ ~IsNull(config)
  /\ ~skipNotify(monitor, config)
  /\ agg.status = "up"
  /\ ~IsNull(previousState)
  /\ previousState.status = "down"
  /\ Truthy(previousState.lastNotifiedDown)

wasSlowBefore(previousState) == Opt(previousState, "slowSince") # undefined
isSlowNow(monitor, agg) == agg.primaryLatency > monitor.latencyThreshold

\* lines 1260-1283: the slow notification is queued and lastNotifiedSlow SET
slowNotified(monitor, config, agg, upd, previousState, timestamp) ==
  /\ Truthy(monitor.latencyThreshold)
  /\ ~IsNull(config)
  /\ isSlowNow(monitor, agg)
  /\ wasSlowBefore(previousState)
  /\ timestamp - OrElse(upd.newState.slowSince, timestamp) >= slowGracePeriodMs(monitor)
  /\ ~Truthy(Opt(previousState, "lastNotifiedSlow"))

\* lines 1284-1296: the fast-again notification is queued
fastNotified(monitor, config, agg, previousState) ==
  /\ Truthy(monitor.latencyThreshold)
  /\ ~IsNull(config)
  /\ ~isSlowNow(monitor, agg)
  /\ wasSlowBefore(previousState)
  /\ Truthy(Opt(previousState, "lastNotifiedSlow"))

\* lines 1299-1316: baseline is what getBaselineLatency returned
\* latency > baseline * (1 + thresholdPercent / 100), both sides times 100
spikeNotified(monitor, agg, baseline) ==
  /\ monitor.alerting.spikeDetection.enabled
  /\ Truthy(baseline)
  /\ agg.primaryLatency * 100 > baseline * (100 + monitor.alerting.spikeDetection.thresholdPercent)

\* One iteration of the handler's loop over the monitors: the store items of
\* the monitor afterwards, the entry of the states map, the messages pushed.
processMonitor(monitor, config, previousState, incs, checks, baseline, timestamp) ==
  IF Len(checks) = 0
  THEN [stateItem |-> previousState, incidents |-> incs, mapState |-> null,
        aggregated |-> null, pushed |-> <<>>]
  ELSE
    LET agg == aggregateResults(monitor, checks)
        upd == updateMonitorState(monitor, agg, previousState, timestamp)
        newState == upd.newState
        down == downNotified(monitor, config, agg, upd, timestamp)
        up == upNotified(monitor, config, agg, upd, previousState)
        slow == slowNotified(monitor, config, agg, upd, previousState, timestamp)
        fast == fastNotified(monitor, config, agg, previousState)
        spike == spikeNotified(monitor, agg, baseline)
        regionsDown == {r \in DOMAIN agg.regionStatuses : agg.regionStatuses[r].status = "down"}
    IN [stateItem |->
          [newState EXCEPT
             !.lastNotifiedDown = IF down THEN timestamp ELSE @,
             !.lastNotifiedSlow = IF slow THEN timestamp ELSE @],
        incidents |-> updateIncident(incs, agg.status, agg.error, newState.downSince,
                                     regionsDown, timestamp),
        mapState |-> newState,
        aggregated |-> agg,
        pushed |->
          (IF down THEN <<formatNotificationMessage(monitor, FALSE, newState.downSince, timestamp)>>
           ELSE <<>>) \o
          (IF up THEN <<formatNotificationMessage(monitor, TRUE, previousState.downSince, timestamp)>>
           ELSE <<>>) \o
          (IF slow THEN <<formatLatencyMessage(monitor, TRUE, newState.slowSince, timestamp)>>
           ELSE <<>>) \o
          (IF fast THEN <<formatLatencyMessage(monitor, FALSE, previousState.slowSince, timestamp)>>
           ELSE <<>>) \o
          (IF spike THEN <<formatSpikeMessage(monitor, agg.primaryTiming, timestamp)>>
           ELSE <<>>)]

RECURSIVE Concat(_, _)
\* the notifications list after the loop: the pushes of each monitor in order
Concat(results, i) ==
  IF i > Len(monitors) THEN <<>>
  ELSE results[monitors[i].id].pushed \o Concat(results, i + 1)

\* sendNotification goes past its first line when a webhook url is
\* configured and the message is not the empty string
sendNotification(message, config) == config.webhook /\ message.kind # ""

\* JSON.parse(JSON.stringify(payload).replace(/\$MSG/g, message)) for the
\* payload { text: '$MSG' }.  The message is put into the JSON text as it
\* is; a JSON string must not hold a line break, so JSON.parse throws
\* SyntaxError for a message that has one.  lineBreaks counts the \n of
\* the message formats.
processedPayload(message) ==
  LET lineBreaks == CASE message.kind = "up" -> 1
                      [] message.kind = "down" -> 4
                      [] message.kind \in {"slow", "fast"} -> 2
                      [] message.kind = "spike" -> 4
                      [] OTHER -> 0
  IN [thrown |-> lineBreaks > 0, text |-> message]

Delivered(queue, config) ==
  IF IsNull(config) THEN {}
  ELSE {queue[i] : i \in {j \in DOMAIN queue : sendNotification(queue[j], config)}}

\* the observations one invocation of Spec can find for a monitor: a record
\* of every region in the window, or of none
ObsOf(monitor) ==
  [RegionSet(monitor.regions) -> {"up", "down"}] \cup
  {[r \in RegionSet(monitor.regions) |-> "absent"]}
\* the latency of the primary region's record; it is read only by the
\* latency threshold and the spike detection
LatenciesOf(monitor) ==
  IF Truthy(monitor.latencyThreshold) \/ monitor.alerting.spikeDetection.enabled
  THEN {FastLatency, SlowLatency}
  ELSE {FastLatency}
\* what getBaselineLatency returns (undefined: fewer than 6 samples); it is
\* called only when spike detection is enabled
BaselinesOf(monitor) ==
  IF monitor.alerting.spikeDetection.enabled
  THEN {undefined, BaselineLatency}
  ELSE {undefined}
MonitorOf(id) == monitors[CHOOSE i \in DOMAIN monitors : monitors[i].id = id]

\* the store commands of one iteration that the model can make fail
Faults == {"none", "updateMonitorState", "setLastNotified", "updateIncident"}

\* the place in the pushes of the first message that is followed by an
\* UpdateCommand SET lastNotifiedDown or lastNotifiedSlow, 0 if there is none
FirstMarking(pushed) ==
  LET marking == {k \in DOMAIN pushed : pushed[k].kind \in {"down", "slow"}}
  IN IF marking = {} THEN 0 ELSE CHOOSE k \in marking : \A j \in marking : k <= j

\* One iteration in which the store command named by fault throws: what was
\* written and pushed before it stays, the rest of the iteration is not
\* run.  r is the iteration without a fault; raised says that the iteration
\* reached the failing command; wrote is the set of partition keys written.
FaultOutcome(r, k, monitor, previousState, incs, checks, fault) ==
  IF Len(checks) = 0
  THEN [stateItem |-> r.stateItem, incidents |-> r.incidents, mapState |-> r.mapState,
        aggregated |-> r.aggregated, pushed |-> r.pushed, raised |-> FALSE, wrote |-> {}]
  ELSE IF fault = "updateMonitorState"
  THEN [stateItem |-> previousState, incidents |-> incs, mapState |-> null,
        aggregated |-> r.aggregated, pushed |-> <<>>, raised |-> TRUE, wrote |-> {}]
  ELSE IF fault = "setLastNotified" /\ k > 0
  THEN [stateItem |-> r.mapState, incidents |-> incs, mapState |-> r.mapState,
        aggregated |-> r.aggregated, pushed |-> SubSeq(r.pushed, 1, k),
        raised |-> TRUE, wrote |-> {StatePk(monitor.id)}]
  ELSE IF fault = "updateIncident" /\ r.aggregated.status \in {"down", "up"}
  THEN [stateItem |-> r.stateItem, incidents |-> incs, mapState |-> r.mapState,
        aggregated |-> r.aggregated, pushed |-> r.pushed,
        raised |-> TRUE, wrote |-> {StatePk(monitor.id)}]
  ELSE [stateItem |-> r.stateItem, incidents |-> r.incidents, mapState |-> r.mapState,
        aggregated |-> r.aggregated, pushed |-> r.pushed, raised |-> FALSE,
        wrote |-> {StatePk(monitor.id)} \cup
                  (IF r.aggregated.status = "down" \/ r.incidents # incs
                   THEN {IncidentPk(monitor.id)} ELSE {})]

FaultAfter(r, monitor, previousState, incs, checks, fault) ==
  FaultOutcome(r, FirstMarking(r.pushed), monitor, previousState, incs, checks, fault)

processMonitorFault(monitor, config, previousState, incs, checks, baseline, timestamp, fault) ==
  FaultAfter(processMonitor(monitor, config, previousState, incs, checks, baseline, timestamp),
             monitor, previousState, incs, checks, fault)

\* the loop without the try/catch: an error ends the handler
loopContinuesUncaught(raised) == ~raised
\* try { ... } catch (error) { console.error(...) } around the loop body: the
\* handler goes on with the next monitor whatever the iteration raised
loopContinues(raised) == TRUE

\* the place of a monitor in MONITORS_CONFIG
IndexOf(id) == CHOOSE i \in DOMAIN monitors : monitors[i].id = id
\* iteration i of the loop is reached: no earlier iteration ended the handler
Runs(all, i) == \A j \in 1..(i - 1) : loopContinues(all[monitors[j].id].raised)

\* what the loop did for each monitor, all being what each iteration does
\* when it is reached
LoopResults(all) ==
  [id \in MonitorIds |->
     IF Runs(all, IndexOf(id)) THEN all[id]
     ELSE [stateItem |-> stateItems[id], incidents |-> incidentItems[id],
           mapState |-> null, aggregated |-> null, pushed |-> <<>>,
           raised |-> FALSE, wrote |-> {}]]

\* the store and the handler's lists after the loop, updateGlobalState and
\* the send loop; completes says that the handler got past the loop
Commit(results, queue, completes, found, fault, timestamp) ==
  /\ now' = timestamp
  /\ stateItems' = [id \in MonitorIds |-> results[id].stateItem]
  /\ incidentItems' = [id \in MonitorIds |-> results[id].incidents]
  /\ checkResults' = found
  /\ aggregated' = [id \in MonitorIds |-> results[id].aggregated]
  /\ globalState' =
       IF completes
       THEN updateGlobalState(monitors,
              [id \in MonitorIds |-> results[id].mapState], timestamp)
       ELSE globalState
  /\ notifications' = queue
  /\ sent' = IF completes THEN sent \cup Delivered(queue, notificationConfig) ELSE sent
  /\ requests' =
       IF completes
       THEN requests \cup
            {[text |-> processedPayload(message).text] :
               message \in {m \in Delivered(queue, notificationConfig) :
                              ~processedPayload(m).thrown}}
       ELSE requests
  /\ invocations' = invocations
  /\ faults' = [id \in MonitorIds |-> IF results[id].raised THEN fault[id] ELSE "none"]
  /\ writes' = writes \cup
       Written("aggregator",
               UNION {results[id].wrote : id \in MonitorIds} \cup
               (IF completes THEN {GlobalPk} ELSE {}))

CommitLoop(results, completes, found, fault, timestamp) ==
  Commit(results, Concat(results, 1), completes, found, fault, timestamp)

\* await updateGlobalState(...) stands outside the try/catch of the loop: when
\* its PutCommand throws (fault has the key "global"), the handler ends
\* before the send loop
InvokeLoop(all, found, fault, timestamp) ==
  CommitLoop(LoopResults(all),
             Runs(all, Len(monitors) + 1) /\ "global" \notin DOMAIN fault,
             found, fault, timestamp)

\* The handler from the collected lists on: the loop over the monitors,
\* updateGlobalState and the send loop.  found and baseline are what
\* getRecentCheckResults and getBaselineLatency return for each monitor,
\* fault the store command that fails for it.
Invoke(found, baseline, fault, timestamp) ==
  InvokeLoop([id \in MonitorIds |->
                processMonitorFault(MonitorOf(id), notificationConfig, stateItems[id],
                                    incidentItems[id], found[id], baseline[id],
                                    timestamp, fault[id])],
             found, fault, timestamp)

\* One invocation of the aggregator handler at timestamp now + TickMs, the
\* lists it collects given by obs and lat, no store command failing.
Tick ==
  /\ now < MaxTicks * TickMs
  /\ \E obs \in [MonitorIds -> UNION {ObsOf(monitors[i]) : i \in DOMAIN monitors}],
        lat \in [MonitorIds -> {FastLatency, SlowLatency}],
        baseline \in [MonitorIds -> {undefined, BaselineLatency}] :
       /\ \A id \in MonitorIds :
            /\ obs[id] \in ObsOf(MonitorOf(id))
            /\ lat[id] \in LatenciesOf(MonitorOf(id))
            /\ baseline[id] \in BaselinesOf(MonitorOf(id))
       /\ Invoke([id \in MonitorIds |-> CheckResultsOf(MonitorOf(id), obs[id], lat[id])],
                 baseline, [id \in MonitorIds |-> "none"], now + TickMs)
  /\ UNCHANGED <<monitors, notificationConfig>>
  /\ UNCHANGED <<checkerVars, response, page>>

\* One invocation of the aggregator handler at timestamp now + TickMs that
\* reads the CHECK and LATENCY items of the table, no store command failing.
\* getBaselineLatency is called when spike detection is enabled.
TickStore ==
  /\ now < (StoreStartTicks + MaxStoreTicks) * TickMs
  /\ Invoke([id \in MonitorIds |->
               getRecentCheckResults(checkItems, MonitorOf(id), now + TickMs)],
            [id \in MonitorIds |->
               IF MonitorOf(id).alerting.spikeDetection.enabled
               THEN getBaselineLatency(latencyItems, id, MonitorOf(id).primaryRegion,
                      MonitorOf(id).alerting.spikeDetection.baselineWindowMinutes,
                      now + TickMs)
               ELSE undefined],
            [id \in MonitorIds |-> "none"], now + TickMs)
  /\ UNCHANGED <<monitors, notificationConfig>>
  /\ UNCHANGED <<checkerVars, response, page>>

\* ------------------------------------------------------------ configuration
Alerting(dvt, slowGrace, spike) ==
  [downVoteThreshold |-> dvt,
   slowGracePeriod |-> slowGrace,
   spikeDetection |-> [enabled |-> spike,
                       thresholdPercent |-> SpikeThresholdPercent,
                       baselineWindowMinutes |-> BaselineWindowMinutes]]

MonitorTarget(id, n, latencyThreshold, alerting) ==
  [id |-> id,
   regions |-> SubSeq(AllRegions, 1, n),
   primaryRegion |-> AllRegions[1],
   latencyThreshold |-> latencyThreshold,
   alerting |-> alerting]

\* The deployments of Spec.  A monitor checked from three regions with the
\* default vote threshold and no latency alerting, and a monitor checked
\* from one region with a latency threshold, with and without spike
\* detection.
VotingMonitors == {<<MonitorTarget("m1", 3, undefined, Alerting(undefined, undefined, FALSE))>>}
LatencyMonitors ==
  {<<MonitorTarget("m1", 1, LatencyThreshold, Alerting(undefined, 1, sp))>> :
     sp \in BOOLEAN}

NotificationConfigOf(grace, skip) ==
  [webhook |-> TRUE, gracePeriod |-> grace, skipNotificationIds |-> skip]

VotingNotificationConfigs ==
  {NotificationConfigOf(g, {}) : g \in {undefined, 1}}
LatencyNotificationConfigs ==
  {null} \cup {NotificationConfigOf(undefined, sk) : sk \in {{}, {"m1"}}}

\* the names of the aggregator invocations that can be in flight together
Invocations == {"a", "b"}

\* the aggregator's part of the table is empty: no invocation up to time t
\* found a record
StoreAt(t) ==
  /\ now = t
  /\ stateItems = [id \in MonitorIds |-> null]
  /\ incidentItems = [id \in MonitorIds |-> {}]
  /\ globalState = null
  /\ checkResults = [id \in MonitorIds |-> <<>>]
  /\ aggregated = [id \in MonitorIds |-> null]
  /\ notifications = <<>>
  /\ sent = {}
  /\ requests = {}
  /\ invocations = [i \in Invocations |-> [pc |-> "idle"]]
  /\ faults = [id \in MonitorIds |-> "none"]
  /\ writes = {}
  /\ response = null
  /\ page = null

InitStore == StoreAt(0)

\* no checker has run yet
InitChecker ==
  /\ checkItems = {}
  /\ latencyItems = {}
  /\ probe = null
  /\ tasks = <<>>
  /\ summary = null

Init ==
  /\ \/ monitors \in VotingMonitors /\ notificationConfig \in VotingNotificationConfigs
     \/ monitors \in LatencyMonitors /\ notificationConfig \in LatencyNotificationConfigs
  /\ InitStore
  /\ InitChecker

Next == Tick

Spec == Init /\ [][Next]_vars

\* ------------------------------------------------- the vote on its own
\* aggregateResults applied to every list of records of every monitor of up
\* to MaxRegions regions, with and without a configured vote threshold.
VoteMonitors ==
  {<<MonitorTarget("m1", n, undefined, Alerting(dvt, undefined, FALSE))>> :
     n \in 1..MaxRegions, dvt \in {undefined} \cup (1..MaxRegions)}

VoteInit ==
  /\ monitors \in VoteMonitors
  /\ notificationConfig = null
  /\ InitStore
  /\ InitChecker

Vote ==
  /\ \E id \in MonitorIds :
       \E obs \in [RegionSet(MonitorOf(id).regions) -> {"absent", "up", "down"}],
          lat \in {FastLatency, SlowLatency} :
         LET found == CheckResultsOf(MonitorOf(id), obs, lat)
         IN /\ checkResults' = [checkResults EXCEPT ![id] = found]
            /\ aggregated' = [aggregated EXCEPT ![id] = aggregateResults(MonitorOf(id), found)]
  /\ UNCHANGED <<monitors, notificationConfig, now, stateItems, incidentItems,
                 globalState, notifications, sent, requests, invocations,
                 faults, writes>>
  /\ UNCHANGED <<checkerVars, response, page>>

VoteNext == Vote

SpecVote == VoteInit /\ [][VoteNext]_vars

\* ------------------------------------------- invocations that overlap
\* Two invocations of the aggregator handler run at the same time for one
\* monitor of one region.  Each store command of an invocation is a step of
\* its own; the steps of the two invocations interleave in every order.  No
\* command carries a ConditionExpression.
MaxInvocations == 3

OverlapInit ==
  /\ monitors = <<MonitorTarget("m1", 1, undefined, Alerting(undefined, undefined, FALSE))>>
  /\ notificationConfig = NotificationConfigOf(undefined, {})
  /\ InitStore
  /\ InitChecker

\* const timestamp = Date.now(); getRecentCheckResults, aggregateResults and
\* getMonitorState of the monitor's iteration.  The invocation keeps what
\* the iteration computes from the lists and the state item it read.
StartInvocation(i) ==
  /\ invocations[i].pc = "idle"
  /\ now < MaxInvocations * TickMs
  /\ \E id \in MonitorIds : \E obs \in ObsOf(MonitorOf(id)) :
       LET found == CheckResultsOf(MonitorOf(id), obs, FastLatency)
           r == processMonitor(MonitorOf(id), notificationConfig, stateItems[id],
                               incidentItems[id], found, undefined, now + TickMs)
       IN /\ now' = now + TickMs
          /\ checkResults' = [checkResults EXCEPT ![id] = found]
          /\ aggregated' = [aggregated EXCEPT ![id] = r.aggregated]
          /\ invocations' = [invocations EXCEPT ![i] =
               [pc |-> IF Len(found) = 0 THEN "looped" ELSE "collected",
                timestamp |-> now + TickMs, monitorId |-> id, r |-> r]]
  /\ UNCHANGED <<monitors, notificationConfig, stateItems, incidentItems, globalState,
                 notifications, sent, requests, faults, writes>>
  /\ UNCHANGED <<checkerVars, response, page>>

\* updateMonitorState: PutCommand of newState
PutState(i) ==
  /\ invocations[i].pc = "collected"
  /\ stateItems' = [stateItems EXCEPT ![invocations[i].monitorId] = invocations[i].r.mapState]
  /\ invocations' = [invocations EXCEPT ![i].pc = "stateWritten"]
  /\ UNCHANGED <<monitors, notificationConfig, now, incidentItems, globalState, checkResults,
                 aggregated, notifications, sent, requests, faults, writes>>
  /\ UNCHANGED <<checkerVars, response, page>>

\* lines 1197-1297: the pushes of the iteration; UpdateCommand SET
\* lastNotifiedDown / lastNotifiedSlow on the item that is in the table now
MarkNotified(i) ==
  /\ invocations[i].pc = "stateWritten"
  /\ LET id == invocations[i].monitorId
         r == invocations[i].r
     IN stateItems' = [stateItems EXCEPT ![id] =
          [@ EXCEPT
             !.lastNotifiedDown = IF r.stateItem.lastNotifiedDown # r.mapState.lastNotifiedDown
                                  THEN r.stateItem.lastNotifiedDown ELSE @,
             !.lastNotifiedSlow = IF r.stateItem.lastNotifiedSlow # r.mapState.lastNotifiedSlow
                                  THEN r.stateItem.lastNotifiedSlow ELSE @]]
  /\ invocations' = [invocations EXCEPT ![i].pc = "notified"]
  /\ UNCHANGED <<monitors, notificationConfig, now, incidentItems, globalState, checkResults,
                 aggregated, notifications, sent, requests, faults, writes>>
  /\ UNCHANGED <<checkerVars, response, page>>

\* updateIncident on the incident items that are in the table now
UpdateIncident(i) ==
  /\ invocations[i].pc = "notified"
  /\ LET id == invocations[i].monitorId
         r == invocations[i].r
     IN incidentItems' = [incidentItems EXCEPT ![id] =
          updateIncident(@, r.aggregated.status, r.aggregated.error, r.mapState.downSince,
                         {region \in DOMAIN r.aggregated.regionStatuses :
                            r.aggregated.regionStatuses[region].status = "down"},
                         invocations[i].timestamp)]
  /\ invocations' = [invocations EXCEPT ![i].pc = "looped"]
  /\ UNCHANGED <<monitors, notificationConfig, now, stateItems, globalState, checkResults,
                 aggregated, notifications, sent, requests, faults, writes>>
  /\ UNCHANGED <<checkerVars, response, page>>

\* updateGlobalState and the send loop; the handler returns
FinishInvocation(i) ==
  /\ invocations[i].pc = "looped"
  /\ LET queue == invocations[i].r.pushed
     IN /\ globalState' = updateGlobalState(monitors,
             [id \in MonitorIds |-> IF id = invocations[i].monitorId
                                    THEN invocations[i].r.mapState ELSE null],
             invocations[i].timestamp)
        /\ notifications' = queue
        /\ sent' = sent \cup Delivered(queue, notificationConfig)
        /\ requests' = requests \cup
             {[text |-> processedPayload(message).text] :
                message \in {m \in Delivered(queue, notificationConfig) :
                               ~processedPayload(m).thrown}}
  /\ invocations' = [invocations EXCEPT ![i] = [pc |-> "idle"]]
  /\ UNCHANGED <<monitors, notificationConfig, now, stateItems, incidentItems, checkResults,
                 aggregated, faults, writes>>
  /\ UNCHANGED <<checkerVars, response, page>>

OverlapNext ==
  \E i \in Invocations :
    \/ StartInvocation(i)
    \/ PutState(i)
    \/ MarkNotified(i)
    \/ UpdateIncident(i)
    \/ FinishInvocation(i)

SpecOverlap == OverlapInit /\ [][OverlapNext]_vars

\* ------------------------------------------- store commands that fail
\* Two monitors of one region each that differ in alerting.downGracePeriod
\* only; in every invocation at most one monitor has a store command that
\* throws.
MaxFaultTicks == 2

\* alerting: { downGracePeriod: minutes }
WithDownGrace(monitor, minutes) ==
  [monitor EXCEPT !.alerting = @ @@ [downGracePeriod |-> minutes]]

FaultMonitors ==
  {<<WithDownGrace(MonitorTarget("m1", 1, undefined, Alerting(undefined, undefined, FALSE)), 1),
     WithDownGrace(MonitorTarget("m2", 1, undefined, Alerting(undefined, undefined, FALSE)), 2)>>}

FaultInit ==
  /\ monitors \in FaultMonitors
  /\ notificationConfig = NotificationConfigOf(undefined, {})
  /\ InitStore
  /\ InitChecker

\* the choices of the failing command: none, one command of one monitor, or
\* the PutCommand of updateGlobalState
FaultChoices ==
  {f \in [MonitorIds -> Faults] : Cardinality({id \in MonitorIds : f[id] # "none"}) <= 1}
  \cup {[id \in MonitorIds \cup {"global"} |->
           IF id = "global" THEN "updateGlobalState" ELSE "none"]}

\* One invocation of the aggregator handler in which the store command
\* fault[id] throws when the iteration of monitor id issues it.
TickFault ==
  /\ now < MaxFaultTicks * TickMs
  /\ \E obs \in [MonitorIds -> UNION {ObsOf(monitors[i]) : i \in DOMAIN monitors}],
        lat \in [MonitorIds -> {FastLatency, SlowLatency}],
        fault \in FaultChoices :
       /\ \A id \in MonitorIds :
            /\ obs[id] \in ObsOf(MonitorOf(id))
            /\ lat[id] \in LatenciesOf(MonitorOf(id))
       /\ Invoke([id \in MonitorIds |-> CheckResultsOf(MonitorOf(id), obs[id], lat[id])],
                 [id \in MonitorIds |-> undefined], fault, now + TickMs)
  /\ UNCHANGED <<monitors, notificationConfig>>
  /\ UNCHANGED <<checkerVars, response, page>>

FaultNext == TickFault

SpecFault == FaultInit /\ [][FaultNext]_vars

\* ------------------------------------------- collecting the observations
\* A monitor of 1..MaxRegions regions and the CHECK items its checkers left
\* in the table: of every region any of a record older than the window, a
\* record of the minute before (down) and a record of this minute (up).
\* age is the time between the record and the first invocation; the
\* checkers of different regions write at different milliseconds.
RecordKinds ==
  {[age |-> 120000, status |-> "up"],
   [age |-> 70000, status |-> "down"],
   [age |-> 10000, status |-> "up"]}

CheckResultItem(monitorId, region, kind) ==
  [monitorId |-> monitorId,
   region |-> region,
   timestamp |-> (StoreStartTicks + 1) * TickMs - kind.age + RegionIndex(region),
   status |-> kind.status,
   latency |-> FastLatency,
   error |-> IF kind.status = "down" THEN "timeout" ELSE ""]

CollectMonitors ==
  {<<MonitorTarget("m1", n, undefined, Alerting(undefined, undefined, FALSE))>> :
     n \in 1..MaxRegions}

CollectInit ==
  /\ monitors \in CollectMonitors
  /\ notificationConfig = NotificationConfigOf(undefined, {})
  /\ StoreAt(StoreStartTicks * TickMs)
  /\ \E kinds \in [RegionSet(monitors[1].regions) -> SUBSET RecordKinds] :
       checkItems = UNION {{CheckResultItem("m1", r, k) : k \in kinds[r]} :
                             r \in RegionSet(monitors[1].regions)}
  /\ latencyItems = {}
  /\ probe = null
  /\ tasks = <<>>
  /\ summary = null

CollectNext == TickStore

SpecCollect == CollectInit /\ [][CollectNext]_vars

\* ---------------------------------------------------- the latency baseline
\* A monitor of one region with spike detection enabled.  The checker wrote
\* one record a minute: the table holds the CHECK record of this minute,
\* its LATENCY sample, the samples of the k - 1 minutes before, and any of
\* two samples older than the baseline window.  The timing of the CHECK
\* record has dnsLookup, tlsHandshake and ttfb at and just above the
\* values formatSpikeMessage compares them with.
SampleLatencies == {0, 100}
CurrentLatencies == {0, 200, 700}
StaleMinutes == {BaselineWindowMinutes, BaselineWindowMinutes + 1}

\* the time of the checker's run, minutes before the first invocation
RunTime(minutes) == (StoreStartTicks + 1) * TickMs - 10000 - minutes * TickMs

LatencyHistoryItem(monitorId, region, minutes, latency) ==
  [monitorId |-> monitorId, region |-> region,
   timestamp |-> RunTime(minutes), latency |-> latency]

SpikeMonitors ==
  {<<MonitorTarget("m1", 1, undefined, Alerting(undefined, undefined, TRUE))>>}

SpikeInit ==
  /\ monitors \in SpikeMonitors
  /\ notificationConfig = NotificationConfigOf(undefined, {})
  /\ StoreAt(StoreStartTicks * TickMs)
  /\ \E current \in CurrentLatencies, k \in 1..MaxSamples, stale \in SUBSET StaleMinutes :
       \E before \in [1..(k - 1) -> SampleLatencies],
          dnsLookup \in {100, 101}, tlsHandshake \in {200, 201}, ttfb \in {70, 71} :
         /\ checkItems =
              {[monitorId |-> "m1", region |-> "A", timestamp |-> RunTime(0),
                status |-> "up", latency |-> current, error |-> "",
                timing |-> [dnsLookup |-> dnsLookup, tcpConnect |-> 0,
                            tlsHandshake |-> tlsHandshake, ttfb |-> ttfb,
                            contentDownload |-> 0, total |-> 100]]}
         /\ latencyItems =
              {LatencyHistoryItem("m1", "A", 0, current)} \cup
              {LatencyHistoryItem("m1", "A", i, before[i]) : i \in 1..(k - 1)} \cup
              {LatencyHistoryItem("m1", "A", i, FastLatency) : i \in stale}
  /\ probe = null
  /\ tasks = <<>>
  /\ summary = null

SpikeNext == TickStore

SpecSpike == SpikeInit /\ [][SpikeNext]_vars

\* ------------------------------------------------------------------ checker
\* A message is the sequence of its words; includes(word) looks for a word.
Includes(message, word) == \E i \in DOMAIN message : message[i] = word
\* an optional field of a configuration object is a field the record may lack
Has(object, field) == field \in DOMAIN object

\* The messages of the errors the runtime raises: dns.lookup, the undici
\* client (connect refused, connect timeout, certificate) and net.Socket.
DnsErrors == {<<"getaddrinfo", "ENOTFOUND">>}
RequestErrors ==
  {<<"connect", "ECONNREFUSED">>, <<"Connect", "Timeout", "Error">>,
   <<"certificate", "has", "expired">>}
SocketErrors == {<<"connect", "ECONNREFUSED">>}
\* reject(new Error('Connection timeout')) of checkTcp's own timer
ConnectionTimeout == <<"Connection", "timeout">>

\* What the network does to one check: dns and request are the message of
\* the error raised by the lookup and by the request or connection, <<>>
\* when it succeeds; body is the set of words of the response body;
\* phases are the milliseconds the lookup, the request up to the response
\* headers and the reading of the body took, total is their sum.
Answer(dns, request, statusCode, body, phases) ==
  [dns |-> dns, request |-> request, statusCode |-> statusCode, body |-> body,
   phases |-> phases, total |-> phases[1] + phases[2] + phases[3]]
HttpEnvs ==
  {Answer(d, <<>>, 0, {}, <<200, 0, 0>>) : d \in DnsErrors} \cup
  {Answer(<<>>, e, 0, {}, <<20, 180, 0>>) : e \in RequestErrors} \cup
  {Answer(<<>>, <<>>, c, b, <<20, 160, 20>>) :
     c \in {200, 500}, b \in {{}, {"ok"}, {"error"}, {"ok", "error"}}} \cup
  {Answer(<<>>, <<>>, 200, {"ok"}, <<50, 20, 130>>)}
TcpEnvs ==
  {Answer(d, <<>>, 0, {}, <<200, 0, 0>>) : d \in DnsErrors} \cup
  {Answer(<<>>, e, 0, {}, <<20, 180, 0>>) : e \in SocketErrors \cup {ConnectionTimeout}} \cup
  {Answer(<<>>, <<>>, 0, {}, <<20, 180, 0>>)}
EnvsOf(monitor) == IF monitor.method = "TCP_PING" THEN TcpEnvs ELSE HttpEnvs

\* new URL(target) returns for these targets and throws for the others
ParsesAsUrl(target) == target \in {"https://h", "http://h"}
\* target.split(':')
SplitColon(target) ==
  IF target = "h:443" THEN <<"h", "443">>
  ELSE IF target = "h:0" THEN <<"h", "0">>
  ELSE IF target = ":443" THEN <<"", "443">>
  ELSE IF target = "https://h" THEN <<"https", "//h">>
  ELSE <<target>>
\* parseInt(portStr, 10); NaN (here undefined) for a missing or non-numeric string
parseInt(portStr) ==
  IF portStr = "443" THEN 443 ELSE IF portStr = "0" THEN 0 ELSE undefined

\* a CheckResult; thrown says that the function threw instead of returning,
\* an absent error is the empty message
CheckResult(status, latency, error) ==
  [thrown |-> FALSE, status |-> status, latency |-> latency, error |-> error]

\* the categorisation of checkHttp's catch block
ErrorTypeOf(errorMessage) ==
  IF Includes(errorMessage, "DNS") THEN "DNS resolution failed:"
  ELSE IF Includes(errorMessage, "timeout") \/ Includes(errorMessage, "ETIMEDOUT")
  THEN "Request timeout:"
  ELSE IF Includes(errorMessage, "ECONNREFUSED") THEN "Connection refused:"
  ELSE IF Includes(errorMessage, "ENOTFOUND") THEN "Host not found:"
  ELSE IF Includes(errorMessage, "certificate") \/ Includes(errorMessage, "SSL")
  THEN "TLS/SSL error:"
  ELSE "Connection failed:"

\* the error leaves the function
checkUncaught(env, errorMessage) ==
  [thrown |-> TRUE, status |-> "down", latency |-> env.total, error |-> errorMessage]
\* catch (error) of checkHttp: `${errorType}: ${errorMessage}`
checkHttpCatch(env, errorMessage) ==
  CheckResult("down", env.total, <<ErrorTypeOf(errorMessage)>> \o errorMessage)
\* catch (error) of checkTcp: error: errorMessage
checkTcpCatch(env, errorMessage) ==
  CheckResult("down", env.total, errorMessage)

\* a list of expected codes that has the code of a server error too
ExpectedCodesAndServerError == <<200, 201, 202, 203, 204, 205, 206, 500>>
DefaultExpectedCodes == <<200, 201, 202, 203, 204, 205, 206>>

\* The TimingMetrics of checkHttp, all 0 at first.  dnsLookup is measured
\* around the lookup; tcpConnect is the time of client.request, which
\* starts after the lookup, less dnsLookup, and for https is split 40 to
\* 60 between tlsHandshake and tcpConnect with Math.round; ttfb and total
\* are measured from the start of the check.
httpTiming(monitor, env) ==
  LET zero == [dnsLookup |-> 0, tcpConnect |-> 0, tlsHandshake |-> 0, ttfb |-> 0,
               contentDownload |-> 0, total |-> env.total]
      connectionOverhead == env.phases[2] - env.phases[1]
      isHttps == monitor.target = "https://h"
      Round(tenths) == (tenths + 5) \div 10
  IN IF ~ParsesAsUrl(monitor.target) THEN zero
     ELSE IF env.dns # <<>> \/ env.request # <<>>
     THEN [zero EXCEPT !.dnsLookup = env.phases[1]]
     ELSE [dnsLookup |-> env.phases[1],
           tcpConnect |-> IF isHttps THEN Round(connectionOverhead * 6)
                          ELSE connectionOverhead,
           tlsHandshake |-> IF isHttps THEN Round(connectionOverhead * 4) ELSE 0,
           ttfb |-> env.phases[1] + env.phases[2],
           contentDownload |-> env.phases[3],
           total |-> env.total]

checkHttp(monitor, env) ==
  [timing |-> httpTiming(monitor, env)] @@
  IF ~ParsesAsUrl(monitor.target) THEN checkHttpCatch(env, <<"Invalid", "URL">>)
  ELSE IF env.dns # <<>>
  THEN checkHttpCatch(env, <<"DNS", "lookup", "failed:">> \o env.dns)
  ELSE IF env.request # <<>> THEN checkHttpCatch(env, env.request)
  ELSE
    LET expectedCodes == IF Has(monitor, "expectedCodes") THEN monitor.expectedCodes
                         ELSE DefaultExpectedCodes
        statusOk == IF Len(expectedCodes) > 0
                    THEN \E i \in DOMAIN expectedCodes : expectedCodes[i] = env.statusCode
                    ELSE env.statusCode >= 200 /\ env.statusCode < 300
    IN IF ~statusOk
       THEN CheckResult("down", env.total,
                        <<"HTTP", ToString(env.statusCode), "(expected">> \o
                        [i \in DOMAIN expectedCodes |-> ToString(expectedCodes[i])])
       ELSE IF Has(monitor, "responseKeyword") /\ monitor.responseKeyword # ""
               /\ monitor.responseKeyword \notin env.body
       THEN CheckResult("down", env.total,
                        <<"Response", "missing", "required", "keyword:", monitor.responseKeyword>>)
       ELSE IF Has(monitor, "responseForbiddenKeyword") /\ monitor.responseForbiddenKeyword # ""
               /\ monitor.responseForbiddenKeyword \in env.body
       THEN CheckResult("down", env.total,
                        <<"Response", "contains", "forbidden", "keyword:",
                          monitor.responseForbiddenKeyword>>)
       ELSE CheckResult("up", env.total, <<>>)

checkTcp(monitor, env) ==
  LET parts == SplitColon(monitor.target)
      host == parts[1]
      port == IF Len(parts) > 1 THEN parseInt(parts[2]) ELSE undefined
  IN IF host = "" \/ ~Truthy(port)
     THEN CheckResult("down", 0, <<"Invalid", "target", "format", "(expected", "host:port)">>)
     ELSE IF env.dns # <<>>
     THEN checkTcpCatch(env, <<"DNS", "lookup", "failed:">> \o env.dns)
     ELSE IF env.request # <<>> THEN checkTcpCatch(env, env.request)
     ELSE CheckResult("up", env.total, <<>>)

executeCheck(monitor, env) ==
  IF monitor.method = "TCP_PING" THEN checkTcp(monitor, env) ELSE checkHttp(monitor, env)

\* const ttl = Math.floor(timestamp / 1000) + CHECK_TTL_HOURS * 60 * 60
CHECK_TTL_HOURS == 12
ttlOf(timestamp) == (timestamp \div 1000) + CHECK_TTL_HOURS * 60 * 60

\* writeCheckResult: the two items of one result
CheckItemOf(monitorId, region, result, timestamp) ==
  [monitorId |-> monitorId, region |-> region, timestamp |-> timestamp,
   status |-> result.status, latency |-> result.latency, error |-> result.error,
   ttl |-> ttlOf(timestamp)]
LatencyItemOf(monitorId, region, result, timestamp) ==
  [monitorId |-> monitorId, region |-> region, timestamp |-> timestamp,
   latency |-> result.latency, ttl |-> ttlOf(timestamp)]

\* the first put caught and logged: the second put follows in any case
afterPutCheckCaught(succeeded) == "putLatency"
\* await docClient.send(new PutCommand({ Item: checkItem })): the second put
\* follows when the first one succeeded, a failure rejects the task
afterPutCheck(succeeded) == IF succeeded THEN "putLatency" ELSE "rejected"

\* every monitor of the configuration, whatever its regions
everyMonitor(region) == {monitors[i].id : i \in DOMAIN monitors}

\* monitors.filter((m) => m.regions.includes(CURRENT_REGION))
regionMonitors(region) ==
  {monitors[i].id : i \in {j \in DOMAIN monitors : region \in RegionSet(monitors[j].regions)}}

\* the run of the checker is in progress
Running == ~IsNull(probe) /\ IsNull(summary)
RunsSoFar == IF IsNull(probe) THEN 0 ELSE probe.run
AtStep(id, pc) == Running /\ id \in DOMAIN tasks /\ tasks[id].pc = pc

\* Promise.all in place of Promise.allSettled: the await ends with the
\* first rejection
allOrFirstRejection(ts) ==
  \/ \E id \in DOMAIN ts : ts[id].pc = "rejected"
  \/ \A id \in DOMAIN ts : ts[id].pc = "fulfilled"
\* await Promise.allSettled(...): every task is fulfilled or rejected
allSettled(ts) == \A id \in DOMAIN ts : ts[id].pc \in {"fulfilled", "rejected"}

\* The handler of the checker of a region starts: Date.now(), the filter,
\* and one task for each monitor of the region.  The runs of one minute
\* start ten seconds before the aggregator's next invocation, a
\* millisecond apart.
ProbeStart(region) ==
  /\ IsNull(probe) \/ ~IsNull(summary)
  /\ RunsSoFar < MaxRuns
  /\ probe' = [region |-> region, run |-> RunsSoFar + 1,
               timestamp |-> now + TickMs - 10000 + RunsSoFar]
  /\ tasks' = [id \in regionMonitors(region) |->
                 [pc |-> "check", env |-> null, result |-> null]]
  /\ summary' = null
  /\ UNCHANGED <<monitors, notificationConfig, aggregatorVars, writes, checkItems,
                 latencyItems, response, page>>

\* const result = await executeCheck(monitor)
ExecuteCheck(id) ==
  /\ AtStep(id, "check")
  /\ \E env \in EnvsOf(MonitorOf(id)) :
       tasks' = [tasks EXCEPT ![id] =
                   [pc |-> IF executeCheck(MonitorOf(id), env).thrown
                           THEN "rejected" ELSE "putCheck",
                    env |-> env,
                    result |-> executeCheck(MonitorOf(id), env)]]
  /\ UNCHANGED <<monitors, notificationConfig, aggregatorVars, writes, checkItems,
                 latencyItems, probe, summary, response, page>>

\* the first PutCommand of writeCheckResult; the command can fail
PutCheck(id) ==
  /\ AtStep(id, "putCheck")
  /\ \/ /\ checkItems' = checkItems \cup
                {CheckItemOf(id, probe.region, tasks[id].result, probe.timestamp)}
        /\ writes' = writes \cup Written("probe", {CheckPk(id)})
        /\ tasks' = [tasks EXCEPT ![id].pc = afterPutCheck(TRUE)]
     \/ /\ tasks' = [tasks EXCEPT ![id].pc = afterPutCheck(FALSE)]
        /\ UNCHANGED <<checkItems, writes>>
  /\ UNCHANGED <<monitors, notificationConfig, aggregatorVars, latencyItems, probe,
                 summary, response, page>>

\* the second PutCommand of writeCheckResult
PutLatency(id) ==
  /\ AtStep(id, "putLatency")
  /\ \/ /\ latencyItems' = latencyItems \cup
                {LatencyItemOf(id, probe.region, tasks[id].result, probe.timestamp)}
        /\ writes' = writes \cup Written("probe", {LatencyPk(id, probe.region)})
        /\ tasks' = [tasks EXCEPT ![id].pc = "fulfilled"]
     \/ /\ tasks' = [tasks EXCEPT ![id].pc = "rejected"]
        /\ UNCHANGED <<latencyItems, writes>>
  /\ UNCHANGED <<monitors, notificationConfig, aggregatorVars, checkItems, probe,
                 summary, response, page>>

\* the await of the handler ends; the summary is returned
ProbeReturn ==
  /\ Running
  /\ allSettled(tasks)
  /\ summary' =
       [region |-> probe.region,
        timestamp |-> probe.timestamp,
        monitorsChecked |-> Cardinality(regionMonitors(probe.region)),
        successful |-> Cardinality({id \in DOMAIN tasks : tasks[id].pc = "fulfilled"}),
        failed |-> Cardinality({id \in DOMAIN tasks : tasks[id].pc = "rejected"})]
  /\ UNCHANGED <<monitors, notificationConfig, aggregatorVars, writes, checkItems,
                 latencyItems, probe, tasks, response, page>>

\* the method, target and response checks of a monitor
Probed(monitor, method, target) ==
  monitor @@ [method |-> method, target |-> target]
Keywords(monitor, responseKeyword, responseForbiddenKeyword) ==
  monitor @@ [responseKeyword |-> responseKeyword,
              responseForbiddenKeyword |-> responseForbiddenKeyword]

\* the regions that run a checker
ProbeRegions == {"A", "B"}

\* An HTTP monitor checked from region A with a required and a forbidden
\* keyword, and a TCP monitor checked from the regions A and B; targets the
\* functions accept and targets they do not.
ProbeMonitors ==
  {<<Keywords(Probed(MonitorTarget("m1", 1, undefined, Alerting(undefined, undefined, FALSE)),
                     "GET", url), "ok", "error"),
     Probed(MonitorTarget("m2", 2, undefined, Alerting(undefined, undefined, FALSE)),
            "TCP_PING", hostport)>> :
     url \in {"https://h", "h"}, hostport \in {"h:443", "h:0", ":443", "h"}}

ProbeInit ==
  /\ monitors \in ProbeMonitors
  /\ notificationConfig = NotificationConfigOf(undefined, {})
  /\ StoreAt(StoreStartTicks * TickMs)
  /\ InitChecker

ProbeNext ==
  \/ \E region \in ProbeRegions : ProbeStart(region)
  \/ \E id \in MonitorIds : ExecuteCheck(id)
  \/ \E id \in MonitorIds : PutCheck(id)
  \/ \E id \in MonitorIds : PutLatency(id)
  \/ ProbeReturn

SpecProbe == ProbeInit /\ [][ProbeNext]_vars

\* ---------------------------------------------------------------- query API
\* Buffer.from(s, 'base64'): four characters of six bits give three
\* bytes, a last group of two or three characters one or two bytes
RECURSIVE base64Decode(_)
base64Decode(sextets) ==
  IF Len(sextets) < 2 THEN <<>>
  ELSE LET bits == sextets[1] * 262144 + sextets[2] * 4096
                   + (IF Len(sextets) >= 3 THEN sextets[3] * 64 ELSE 0)
                   + (IF Len(sextets) >= 4 THEN sextets[4] ELSE 0)
           bytes == <<bits \div 65536, (bits \div 256) % 256, bits % 256>>
           count == IF Len(sextets) >= 4 THEN 3 ELSE Len(sextets) - 1
       IN SubSeq(bytes, 1, count) \o
          (IF Len(sextets) > 4
           THEN base64Decode(SubSeq(sextets, 5, Len(sextets))) ELSE <<>>)

\* any request passes
checkAuthOpen(event, passwordProtection) == TRUE
\* checkAuth; PASSWORD_PROTECTION is the sequence of the characters of
\* user:pass, empty when it is not set; a header value is its first six
\* characters and the base64 characters after them
checkAuth(event, passwordProtection) ==
  IF passwordProtection = <<>> THEN TRUE
  ELSE IF ~Has(event.headers, "Authorization") /\ ~Has(event.headers, "authorization")
  THEN FALSE
  ELSE LET authHeader == IF Has(event.headers, "Authorization")
                         THEN event.headers.Authorization
                         ELSE event.headers.authorization
       IN IF authHeader.scheme # "Basic " THEN FALSE
          ELSE base64Decode(authHeader.rest) = passwordProtection

\* the result of getTime() for a text that is not a date; every
\* comparison with it is false
NaN == undefined
\* typeof value === 'string' ? new Date(value).getTime() : value, the text
\* 1970-01-01Thh:mm:ssZ being <<hh, mm, ss>>
getTime(value) ==
  IF value.type = "number" THEN value.value
  ELSE IF Len(value.text) = 3
  THEN ((value.text[1] * 60 + value.text[2]) * 60 + value.text[3]) * 1000
  ELSE NaN

\* a window without a list of monitors covers every monitor
coversAny(maintenance, monitorId) == TRUE
\* !(maintenance.monitors && !maintenance.monitors.includes(monitorId))
covers(maintenance, monitorId) ==
  ~Has(maintenance, "monitors") \/ Includes(maintenance.monitors, monitorId)

\* isInMaintenance: the first window of the list that covers the monitor
\* and has now >= start && now <= end, null when there is none; end is
\* Infinity when maintenance.end is not set, 0 or the empty text
isInMaintenance(monitorId, maintenances, clock) ==
  LET Open(maintenance) ==
        \/ ~Has(maintenance, "end")
        \/ maintenance.end.type = "number" /\ maintenance.end.value = 0
        \/ maintenance.end.type = "string" /\ maintenance.end.text = <<>>
      During(maintenance) ==
        /\ getTime(maintenance.start) # NaN /\ clock >= getTime(maintenance.start)
        /\ \/ Open(maintenance)
           \/ getTime(maintenance.end) # NaN /\ clock <= getTime(maintenance.end)
      matching == {i \in DOMAIN maintenances :
                     covers(maintenances[i], monitorId) /\ During(maintenances[i])}
  IN IF matching = {} THEN null
     ELSE maintenances[CHOOSE i \in matching : \A j \in matching : i <= j]

\* getGlobalState and getAllMonitorStates: a read that fails is caught and
\* gives null, or the empty map
getGlobalState(storeDown) == IF storeDown THEN null ELSE globalState
getAllMonitorStates(storeDown) ==
  [id \in MonitorIds |-> IF storeDown THEN null ELSE stateItems[id]]

corsHeaders ==
  {"Access-Control-Allow-Origin", "Access-Control-Allow-Methods",
   "Access-Control-Allow-Headers", "Content-Type"}

OrZero(n) == IF Truthy(n) THEN n ELSE 0

\* what the handler returns without a route handler having run
Reply(call, statusCode, headers, error) ==
  [call |-> call, statusCode |-> statusCode, headers |-> headers, error |-> error,
   rejected |-> FALSE, reads |-> {}, up |-> 0, down |-> 0, degraded |-> 0,
   monitors |-> [id \in MonitorIds |-> ""]]

\* handleStatus: the counts of STATE#GLOBAL and the status of each monitor.
\* MAINTENANCES_CONFIG that is JSON but not an array is not iterable: the
\* loop of isInMaintenance throws and the promise of handleStatus rejects.
handleStatus(call) ==
  LET maintenances == call.env.MAINTENANCES_CONFIG
      global == getGlobalState(call.storeDown)
      monitorStates == getAllMonitorStates(call.storeDown)
      read == [Reply(call, 200, corsHeaders, "") EXCEPT
                 !.reads = {"getGlobalState", "getAllMonitorStates"}]
  IN IF ~maintenances.isArray /\ Len(monitors) > 0
     THEN [read EXCEPT !.statusCode = undefined, !.headers = {}, !.rejected = TRUE]
     ELSE [read EXCEPT
             !.up = IF IsNull(global) THEN 0 ELSE OrZero(global.overallUp),
             !.down = IF IsNull(global) THEN 0 ELSE OrZero(global.overallDown),
             !.degraded = IF IsNull(global) THEN 0 ELSE OrZero(global.overallDegraded),
             !.monitors = [id \in MonitorIds |->
                IF ~IsNull(isInMaintenance(id, maintenances.items, call.clock))
                THEN "maintenance"
                ELSE IF IsNull(monitorStates[id]) THEN "unknown"
                ELSE monitorStates[id].status]]

\* The headers of a request: no Authorization header, a Basic one with
\* the base64 characters of u:p, of u:q or of u:pw, one under the other
\* spelling of the name, and one of another scheme.
RequestHeaders ==
  LET Basic(rest) == [scheme |-> "Basic ", rest |-> rest]
  IN {[Host |-> "api"]}
     \cup {[Host |-> "api", Authorization |-> Basic(rest)] :
             rest \in {<<29, 19, 41, 48>>, <<29, 19, 41, 49>>, <<29, 19, 41, 48, 29, 48>>}}
     \cup {[Host |-> "api", authorization |-> Basic(<<29, 19, 41, 48>>)],
           [Host |-> "api",
            Authorization |-> [scheme |-> "Bearer", rest |-> <<29, 19, 41, 48>>]]}

\* MAINTENANCES_CONFIG: no window, one window, or a window for another
\* monitor and a second one.  The windows are from 00:40:30 to 00:41:30,
\* open, or with a text that is not a date; a time is a number of
\* milliseconds or a text; a window is for every monitor, for no monitor,
\* for m1 or for m2.
MaintenanceLists ==
  LET Numeric(ms) == [type |-> "number", value |-> ms, text |-> <<>>]
      Text(text) == [type |-> "string", value |-> 0, text |-> text]
      Starts == {Numeric(2430000), Text(<<0, 40, 30>>), Text(<<0>>)}
      Ends == {Numeric(2490000), Text(<<0, 41, 30>>), Text(<<0>>)}
      timed == [start : Starts] \cup [start : Starts, end : Ends]
      Windows == timed \cup {w @@ [monitors |-> list] :
                               w \in timed, list \in {<<>>, <<"m1">>, <<"m2">>}}
  IN {<<>>} \cup {<<w>> : w \in Windows}
     \cup {<<[start |-> Numeric(2430000), monitors |-> <<"m2">>], w>> :
             w \in {v \in Windows : Has(v, "monitors") => v.monitors = <<"m1">>}}

\* The calls of the API handler: the event, the environment of the
\* function (PASSWORD_PROTECTION as the characters of u:p, or not set;
\* MAINTENANCES_CONFIG an array or JSON that is not one), Date.now() (the
\* first and the last millisecond of the windows, the one before and the
\* one after) and whether the reads of the table fail.
ApiCalls ==
  LET Call(method, path, headers, password, isArray, maintenances, clock, storeDown) ==
        [event |-> [httpMethod |-> method, path |-> path, headers |-> headers],
         env |-> [PASSWORD_PROTECTION |-> password,
                  MAINTENANCES_CONFIG |-> [isArray |-> isArray, items |-> maintenances]],
         clock |-> clock, storeDown |-> storeDown]
  IN {Call(method, path, headers, password, TRUE, <<>>, 2430000, storeDown) :
        method \in {"GET", "OPTIONS"}, path \in {"/api/status", "/api/unknown"},
        headers \in RequestHeaders, password \in {<<>>, <<117, 58, 112>>},
        storeDown \in BOOLEAN}
     \cup
     {Call("GET", "/api/status", [Host |-> "api"], <<>>, TRUE, maintenances, clock, FALSE) :
        maintenances \in MaintenanceLists,
        clock \in {2429999, 2430000, 2490000, 2490001}}
     \cup
     {Call("GET", "/api/status", [Host |-> "api"], <<>>, FALSE, <<>>, 2430000, FALSE)}

\* One call of the API handler: the preflight, the authentication, the
\* route; the promise of a route handler is returned without await, so the
\* catch of the handler does not see its rejection
ApiRequest(calls) ==
  /\ \E call \in calls :
       response' =
         IF call.event.httpMethod = "OPTIONS" THEN Reply(call, 200, corsHeaders, "")
         ELSE IF ~checkAuth(call.event, call.env.PASSWORD_PROTECTION)
         THEN Reply(call, 401, corsHeaders \cup {"WWW-Authenticate"}, "Unauthorized")
         ELSE IF call.event.path \in {"/api/status", "/status"} THEN handleStatus(call)
         ELSE Reply(call, 404, corsHeaders, "Not found")
  /\ UNCHANGED <<monitors, notificationConfig, aggregatorVars, writes, checkerVars, page>>

\* ----------------------------------------------------- the status page
\* fetchFromAWS of src/lib/data-provider.ts, applied to the bodies of
\* /api/status and /api/config of a backend with the monitors m1 and m2.

\* the bodies of /api/status: handleStatus ignores the query string, so the
\* body has an entry for every monitor of MONITORS_CONFIG; up and down are
\* the counters of STATE#GLOBAL, counted over every configured monitor
BackendStatuses ==
  {[up |-> Cardinality({id \in {"m1", "m2"} : status[id] \notin {"down", "degraded"}}),
    down |-> Cardinality({id \in {"m1", "m2"} : status[id] = "down"}),
    updatedAt |-> 120000,
    monitors |-> [id \in {"m1", "m2"} |->
       [status |-> status[id],
        primaryRegion |-> "A",
        latency |-> IF status[id] = "unknown" THEN 0 ELSE IF id = "m1" THEN 200 ELSE 70000,
        downSince |-> IF status[id] = "down" THEN 60000 ELSE undefined]]] :
     status \in [{"m1", "m2"} -> {"up", "down", "unknown"}]}

\* state of the page: the counters, and the incident and latency maps with
\* an entry for each monitor of the list that the status body knows.  The
\* hex strings are sequences of the values of their digits.
convertAWSStateToCompacted(statusData, listed, clock) ==
  LET byte(b) == <<b \div 16, b % 16>>
      uint32ToHex(value) ==
        byte(value % 256) \o byte((value \div 256) % 256) \o
        byte((value \div 65536) % 256) \o byte((value \div 16777216) % 256)
      uint16ToHex(value) == byte(value % 256) \o byte((value \div 256) % 256)
      known == {listed[i].id : i \in DOMAIN listed} \cap DOMAIN statusData.monitors
  IN [lastUpdate |-> IF Truthy(statusData.updatedAt) THEN statusData.updatedAt ELSE clock,
      overallUp |-> OrZero(statusData.up),
      overallDown |-> OrZero(statusData.down),
      incident |-> [id \in known |->
         LET monitorData == statusData.monitors[id]
         IN IF monitorData.status = "down" /\ Truthy(monitorData.downSince)
            THEN [start |-> <<monitorData.downSince>>, end |-> <<null>>,
                  error |-> <<<<"Service unavailable">>>>]
            ELSE [start |-> <<>>, end |-> <<>>, error |-> <<>>]],
      latency |-> [id \in known |->
         LET monitorData == statusData.monitors[id]
             latency == OrZero(monitorData.latency)
         IN [time |-> uint32ToHex(clock \div 1000),
             ping |-> uint16ToHex(IF latency < 65535 THEN latency ELSE 65535),
             loc |-> [v |-> <<monitorData.primaryRegion>>, c |-> <<1>>]]]]

\* siteConfig.monitors is "*" or a list of monitor ids; Select keeps the
\* entries of a list that satisfy keep, in order
fetchFromAWS(statusData, configData, siteConfig, clock) ==
  LET all == siteConfig.monitors = <<"*">>
      allowedIds == {siteConfig.monitors[i] : i \in DOMAIN siteConfig.monitors}
      allowed(m) == all \/ m.id \in allowedIds
      grouped(m) ==
        IF Has(siteConfig, "groups") /\ \E g \in DOMAIN siteConfig.groups : m.id \in siteConfig.groups[g]
        THEN m @@ [group |-> CHOOSE g \in DOMAIN siteConfig.groups : m.id \in siteConfig.groups[g]]
        ELSE m
      filtered == SelectSeq(configData.monitors, allowed)
      listed == [i \in DOMAIN filtered |-> grouped(filtered[i])]
      shown(m) == all \/ ~Has(m, "monitors") \/ \E i \in DOMAIN m.monitors : m.monitors[i] \in allowedIds
  IN [state |-> convertAWSStateToCompacted(statusData, listed, clock),
      monitors |-> listed,
      maintenances |-> SelectSeq(configData.maintenances, shown),
      siteConfig |-> siteConfig]

\* A status page is loaded: the site configuration, the bodies of the two
\* requests and the time of the load are the inputs.
LoadPage ==
  /\ \E list \in {<<"*">>, <<"m1">>, <<"m2">>, <<"m1", "m2">>},
        groups \in {<<>>, <<"m1">>},
        statusData \in BackendStatuses,
        maintenances \in {<<>>, <<[body |-> "b"]>>, <<[body |-> "b", monitors |-> <<"m1">>]>>,
                          <<[body |-> "b", monitors |-> <<"m2">>], [body |-> "c"]>>},
        clock \in {180000, 66000000} :
       LET siteConfig == IF groups = <<>> THEN [id |-> "site", monitors |-> list]
                         ELSE [id |-> "site", monitors |-> list, groups |-> [g |-> {"m1"}]]
           configData == [monitors |-> <<[id |-> "m1", name |-> "one"], [id |-> "m2", name |-> "two"]>>,
                          maintenances |-> maintenances]
       IN page' = [statusData |-> statusData, configData |-> configData, clock |-> clock,
                   data |-> fetchFromAWS(statusData, configData, siteConfig, clock)]
  /\ UNCHANGED <<monitors, notificationConfig, aggregatorVars, writes, checkerVars, response>>

SiteInit ==
  /\ monitors = <<MonitorTarget("m1", 1, undefined, Alerting(undefined, undefined, FALSE)),
                  MonitorTarget("m2", 1, undefined, Alerting(undefined, undefined, FALSE))>>
  /\ notificationConfig = null
  /\ InitStore
  /\ InitChecker

SiteNext == LoadPage

SpecSite == SiteInit /\ [][SiteNext]_vars

\* ---------------------------------------------------------------- the system
\* The checker of region A, the aggregator and the API working on one
\* table, for one TCP monitor.
SystemMonitors ==
  {<<Probed(MonitorTarget("m1", 1, undefined, Alerting(undefined, undefined, FALSE)),
            "TCP_PING", "h:443")>>}

\* the calls of the API in the system: a status request, a request of an
\* unknown path and a preflight, without password protection or windows
SystemCalls ==
  {call \in ApiCalls :
     /\ call.event.headers = [Host |-> "api"]
     /\ call.env = [PASSWORD_PROTECTION |-> <<>>,
                    MAINTENANCES_CONFIG |-> [isArray |-> TRUE, items |-> <<>>]]
     /\ call.clock = 2430000
     /\ ~call.storeDown}

SystemInit ==
  /\ monitors \in SystemMonitors
  /\ notificationConfig = NotificationConfigOf(undefined, {})
  /\ StoreAt(StoreStartTicks * TickMs)
  /\ InitChecker

SystemNext ==
  \/ ProbeStart("A")
  \/ \E id \in MonitorIds : ExecuteCheck(id)
  \/ \E id \in MonitorIds : PutCheck(id)
  \/ \E id \in MonitorIds : PutLatency(id)
  \/ ProbeReturn
  \/ TickStore
  \/ ApiRequest(SystemCalls)

SpecSystem == SystemInit /\ [][SystemNext]_vars

\* ------------------------------------------------------------ the API alone
\* The API answering from the table the aggregator leaves for a monitor of
\* three regions: before the first invocation, and after an invocation
\* that found the records of this minute, with no region, one region or
\* every region down.
ApiInit ==
  /\ monitors = <<MonitorTarget("m1", 3, undefined, Alerting(undefined, undefined, FALSE))>>
  /\ notificationConfig = NotificationConfigOf(undefined, {})
  /\ StoreAt(StoreStartTicks * TickMs)
  /\ \E down \in {{}, {"A"}, {"A", "B", "C"}} :
       checkItems =
         {CheckResultItem("m1", r, [age |-> 10000,
                                    status |-> IF r \in down THEN "down" ELSE "up"]) :
            r \in RegionSet(monitors[1].regions)}
  /\ latencyItems = {}
  /\ probe = null
  /\ tasks = <<>>
  /\ summary = null

ApiNext ==
  \/ TickStore
  \/ ApiRequest(ApiCalls)

SpecApi == ApiInit /\ [][ApiNext]_vars

\* ===================================================================
\* The statements checked against the model
\* ===================================================================
StateOf(id) == stateItems[id]
Processed(id) == ~IsNull(stateItems[id]) /\ stateItems[id].lastCheck = now
\* the monitor is notified: a notification configuration exists and the id
\* is not in its skip list
Notifying(id) ==
  /\ ~IsNull(notificationConfig)
  /\ id \notin notificationConfig.skipNotificationIds
\* the messages of a kind queued for a monitor by the latest invocation
Queued(q, id, kind) == {i \in DOMAIN q : q[i].monitorId = id /\ q[i].kind = kind}
\* the messages of a kind delivered for a monitor since a time
SentSince(id, kind, since) ==
  {n \in sent : n.monitorId = id /\ n.kind = kind /\ n.t >= since}
\* the configured grace period before a down notification, milliseconds
DownGraceMs ==
  (IF notificationConfig.gracePeriod = undefined THEN 0
   ELSE notificationConfig.gracePeriod) * 60000
\* the grace period before a slow notification, milliseconds
SlowGraceMs(id) ==
  (IF MonitorOf(id).alerting.slowGracePeriod = undefined THEN 3
   ELSE MonitorOf(id).alerting.slowGracePeriod) * 60000

\* C1: for every monitor and every list of per-region records, with
\* threshold = downVoteThreshold if set, else the least integer not below
\* half the number of regions, and d = the number of regions whose record is
\* down: status is down iff d >= threshold, degraded iff 0 < d < threshold,
\* up iff d = 0.
C1_MajorityVote ==
  \A id \in MonitorIds :
    ~IsNull(aggregated[id]) =>
      LET monitor == MonitorOf(id)
          n == Len(monitor.regions)
          threshold ==
            IF monitor.alerting.downVoteThreshold # undefined
            THEN monitor.alerting.downVoteThreshold
            ELSE CHOOSE k \in 0..n : 2 * k >= n /\ 2 * (k - 1) < n
          d == Cardinality({r \in RegionSet(monitor.regions) :
                 \E i \in DOMAIN checkResults[id] :
                   checkResults[id][i].region = r /\ checkResults[id][i].status = "down"})
      IN /\ aggregated[id].status = "down" <=> d >= threshold
         /\ aggregated[id].status = "degraded" <=> (d > 0 /\ d < threshold)
         /\ aggregated[id].status = "up" <=> d = 0

\* C1 witness: a three-region monitor with the default threshold and exactly
\* one region down has been aggregated to degraded
C1_Witness ==
  \E id \in MonitorIds :
    /\ ~IsNull(aggregated[id])
    /\ Len(MonitorOf(id).regions) = 3
    /\ MonitorOf(id).alerting.downVoteThreshold = undefined
    /\ Cardinality({i \in DOMAIN checkResults[id] : checkResults[id][i].status = "down"}) = 1
    /\ aggregated[id].status = "degraded"

\* C2: a notified monitor that has been down for at least the grace period
\* has had exactly one down notification in this down episode, sent at the
\* first invocation with T - downSince >= grace, and lastNotifiedDown is the
\* time of that notification.
C2_ExactlyOneDownAfterGrace ==
  \A id \in MonitorIds :
    (/\ Notifying(id)
     /\ Processed(id)
     /\ StateOf(id).status = "down"
     /\ now - StateOf(id).downSince >= DownGraceMs)
    => /\ Cardinality(SentSince(id, "down", StateOf(id).downSince)) = 1
       /\ \A n \in SentSince(id, "down", StateOf(id).downSince) :
            /\ n.t >= StateOf(id).downSince + DownGraceMs
            /\ now = StateOf(id).downSince + DownGraceMs => n.t = now
            /\ StateOf(id).lastNotifiedDown = n.t

\* C3: a down notification is queued by an invocation at T only when the
\* monitor's status is down and T - downSince is at least the grace period.
C3_NoDownBeforeGrace ==
  \A id \in MonitorIds :
    Queued(notifications, id, "down") # {} =>
      /\ Processed(id)
      /\ StateOf(id).status = "down"
      /\ StateOf(id).downSince # undefined
      /\ now - StateOf(id).downSince >= DownGraceMs

\* C3 witness: the invocation that first sees the majority down, under a
\* non-zero grace period, has queued no down notification
C3_Witness ==
  \E id \in MonitorIds :
    /\ Notifying(id)
    /\ DownGraceMs > 0
    /\ Processed(id)
    /\ StateOf(id).status = "down"
    /\ StateOf(id).downSince = now
    /\ Queued(notifications, id, "down") = {}

\* C3 second witness state: a down notification has been queued
C3_Fired ==
  \E id \in MonitorIds : Queued(notifications, id, "down") # {}

C4_Blip ==
  \E id \in MonitorIds :
    /\ Notifying(id)
    /\ Processed(id)
    /\ StateOf(id).status = "up"
    /\ \E i \in incidentItems[id] : i.end = now
    /\ SentSince(id, "down", 0) = {}
    /\ Queued(notifications, id, "up") = {}

\* C5: while a notified monitor with a latency threshold is slow, the
\* number of slow notifications sent since slowSince is 0 as long as
\* T - slowSince is below the slow grace period and exactly 1 from the first
\* invocation where it is not.
C5_ExactlyOneSlow ==
  \A id \in MonitorIds :
    (/\ Notifying(id)
     /\ Truthy(MonitorOf(id).latencyThreshold)
     /\ Processed(id)
     /\ StateOf(id).slowSince # undefined)
    => Cardinality(SentSince(id, "slow", StateOf(id).slowSince)) =
         IF now - StateOf(id).slowSince >= SlowGraceMs(id) THEN 1 ELSE 0

\* C6: an invocation queues exactly one fast-again notification for a
\* monitor when it ends a slow episode in which a slow notification was
\* sent, and none otherwise.
C6_FastAgainIffAnnounced ==
  [][\A id \in MonitorIds :
       Notifying(id) =>
         LET wasSlow == ~IsNull(stateItems[id]) /\ stateItems[id].slowSince # undefined
             announced == wasSlow /\ SentSince(id, "slow", stateItems[id].slowSince) # {}
             recovers == /\ wasSlow
                         /\ stateItems'[id].lastCheck = now'
                         /\ stateItems'[id].slowSince = undefined
         IN Cardinality(Queued(notifications', id, "fast")) =
              IF recovers /\ announced THEN 1 ELSE 0]_vars

\* C7: no message of any kind is queued or sent for a monitor whose id is in
\* the notification skip list.
C7_SkipListSilent ==
  \A id \in MonitorIds :
    (~IsNull(notificationConfig) /\ id \in notificationConfig.skipNotificationIds)
    => /\ \A i \in DOMAIN notifications : notifications[i].monitorId # id
       /\ \A n \in sent : n.monitorId # id

\* C8: in every stored MonitorState, downSince is set iff status is down.
C8_DownSinceIffDown ==
  \A id \in MonitorIds :
    ~IsNull(StateOf(id)) =>
      (StateOf(id).downSince # undefined <=> StateOf(id).status = "down")

\* C8 witness: a monitor that was down is stored as degraded, after an
\* earlier episode that ended in up
C8_Witness ==
  \E id \in MonitorIds :
    /\ Processed(id)
    /\ StateOf(id).status = "degraded"
    /\ StateOf(id).downSince = undefined
    /\ \E i \in incidentItems[id] : i.end = undefined /\ i.start = now - TickMs
    /\ \E i \in incidentItems[id] : i.end # undefined

\* C8 second witness state: a down episode lasting more than one invocation
C8_StillDown ==
  \E id \in MonitorIds :
    /\ Processed(id)
    /\ StateOf(id).status = "down"
    /\ StateOf(id).downSince # undefined
    /\ StateOf(id).downSince < now

C10_AtMostOneOpenIncident ==
  \A id \in MonitorIds :
    Cardinality({i \in incidentItems[id] : i.end = undefined}) <= 1

\* C11: once a monitor's status is up, its most recent incident has an end
\* with end >= start, and no invocation removes a closed incident or changes
\* its end; a new down episode adds a record with a later start instead.
C11_ClosureOneWay ==
  [][\A id \in MonitorIds :
       /\ (/\ ~IsNull(stateItems'[id])
           /\ stateItems'[id].status = "up"
           /\ incidentItems'[id] # {})
          => \E i \in incidentItems'[id] :
               /\ \A j \in incidentItems'[id] : j.start <= i.start
               /\ i.end # undefined
               /\ i.end >= i.start
       /\ \A i \in incidentItems[id] :
            i.end # undefined => i \in incidentItems'[id]
       /\ \A i \in incidentItems'[id] \ incidentItems[id] :
            \A j \in incidentItems[id] : j.end # undefined => i.start > j.end]_vars

\* C11 witness: a monitor that is up, with an incident closed by an earlier
\* invocation and a later incident of a new down episode, closed as well
C11_Witness ==
  \E id \in MonitorIds :
    /\ Processed(id)
    /\ StateOf(id).status = "up"
    /\ \E i, j \in incidentItems[id] :
         /\ i.end # undefined
         /\ i.end < j.start
         /\ j.end # undefined
         /\ j.end < now

\* the records of the latest invocation's list whose status is down
DownRecords(id) ==
  {k \in DOMAIN checkResults[id] : checkResults[id][k].status = "down"}

\* C12: after an invocation that processed a monitor to status down, exactly
\* one incident has start = downSince; it has no end, the error of this
\* invocation's down regions, and regionsDown = the regions whose record of
\* this invocation is down.
C12_OpenIncidentOfThisTick ==
  \A id \in MonitorIds :
    (Processed(id) /\ StateOf(id).status = "down") =>
      /\ StateOf(id).downSince # undefined
      /\ Cardinality({i \in incidentItems[id] : i.start = StateOf(id).downSince}) = 1
      /\ \A i \in incidentItems[id] :
           i.start = StateOf(id).downSince =>
             /\ i.end = undefined
             /\ i.error = {<<checkResults[id][k].region, checkResults[id][k].error>> :
                             k \in DownRecords(id)}
             /\ i.regionsDown = {checkResults[id][k].region : k \in DownRecords(id)}

\* C12 witness: a down episode in its second invocation at least, whose
\* incident names two of three regions, the third now being up
C12_Witness ==
  \E id \in MonitorIds :
    /\ Processed(id)
    /\ StateOf(id).status = "down"
    /\ StateOf(id).downSince < now
    /\ Cardinality(DownRecords(id)) = 2
    /\ Len(checkResults[id]) = 3
    /\ \E i \in incidentItems[id] :
         i.start = StateOf(id).downSince /\ Cardinality(i.regionsDown) = 2

\* C13: an invocation whose vote for a monitor is degraded leaves the
\* monitor's incident records as they were, stores no downSince and queues
\* no down notification for it.
C13_DegradedOpensNothing ==
  [][\A id \in MonitorIds :
       (/\ ~IsNull(aggregated'[id])
        /\ aggregated'[id].status = "degraded")
       => /\ incidentItems'[id] = incidentItems[id]
          /\ stateItems'[id].status = "degraded"
          /\ stateItems'[id].downSince = undefined
          /\ Queued(notifications', id, "down") = {}]_vars

\* C13 witness: the first invocation of a notified monitor without grace
\* period found one of three regions down: degraded, no incident, no message
C13_Witness ==
  \E id \in MonitorIds :
    /\ Notifying(id)
    /\ DownGraceMs = 0
    /\ Processed(id)
    /\ now = TickMs
    /\ Cardinality(DownRecords(id)) = 1
    /\ StateOf(id).status = "degraded"
    /\ incidentItems[id] = {}
    /\ notifications = <<>>

\* the invocation about to end reads, for the monitor, the list the previous
\* invocation read, and the previous invocation wrote the monitor's state
Rerun(id) ==
  /\ Processed(id)
  /\ checkResults[id] # <<>>
  /\ checkResults'[id] = checkResults[id]
\* no incident record with a start that no record had before
NoNewIncident(id) ==
  {i.start : i \in incidentItems'[id]} \subseteq {i.start : i \in incidentItems[id]}

\* C14: a second invocation on unchanged observations stores a MonitorState
\* equal to the first one's in every field except lastCheck, and creates no
\* incident record.
C14_Idempotent ==
  [][\A id \in MonitorIds :
       Rerun(id) =>
         /\ stateItems'[id] = [stateItems[id] EXCEPT !.lastCheck = now']
         /\ NoNewIncident(id)]_vars

\* C14 amended: a second invocation on unchanged observations stores a
\* MonitorState equal to the first one's in every field except lastCheck and
\* lastNotifiedSlow; lastNotifiedSlow changes only by being set to the time
\* of the second invocation, when that invocation queues the slow
\* notification because the slow grace period has run out; no incident
\* record is created.
C14_IdempotentButSlowMark ==
  [][\A id \in MonitorIds :
       Rerun(id) =>
         /\ stateItems'[id] =
              [stateItems[id] EXCEPT !.lastCheck = now',
                                     !.lastNotifiedSlow = stateItems'[id].lastNotifiedSlow]
         /\ stateItems'[id].lastNotifiedSlow # stateItems[id].lastNotifiedSlow
            => /\ stateItems'[id].lastNotifiedSlow = now'
               /\ Queued(notifications', id, "slow") # {}
               /\ now' - stateItems'[id].slowSince >= SlowGraceMs(id)
         /\ NoNewIncident(id)]_vars

\* C14 witness: a one-region monitor that was never down and became slow at
\* the previous invocation has been found slow again, with the same record,
\* and the second invocation has set lastNotifiedSlow
C14_Witness ==
  \E id \in MonitorIds :
    /\ Processed(id)
    /\ Len(MonitorOf(id).regions) = 1
    /\ incidentItems[id] = {}
    /\ StateOf(id).status = "up"
    /\ StateOf(id).slowSince = now - TickMs
    /\ StateOf(id).lastNotifiedSlow = now

\* the iteration of the loop for a monitor as the step ran it when no store
\* command throws
Faultless(id) ==
  processMonitor(MonitorOf(id), notificationConfig, stateItems[id], incidentItems[id],
                 checkResults'[id], undefined, now')

\* C17: if the processing of one monitor raises an error during an
\* aggregator invocation, every other monitor of the configured list is
\* still processed in that invocation -- its state item and its incidents
\* are what its iteration writes, with lastCheck of this invocation when it
\* has records -- and the global summary of this invocation is written.
C17_OthersProceed ==
  [][\A id \in MonitorIds :
       faults'[id] # "none" =>
         /\ \A other \in MonitorIds \ {id} :
              /\ stateItems'[other] = Faultless(other).stateItem
              /\ incidentItems'[other] = Faultless(other).incidents
              /\ Len(checkResults'[other]) > 0 => stateItems'[other].lastCheck = now'
         /\ ~IsNull(globalState')
         /\ globalState'.lastUpdate = now']_vars

\* the first monitor's iteration threw, and the second monitor, processed
\* after it, went down in the same invocation and got its incident
C17_Witness ==
  /\ faults["m1"] # "none"
  /\ Processed("m2")
  /\ stateItems["m2"].status = "down"
  /\ \E inc \in incidentItems["m2"] : inc.start = now
  /\ globalState.lastUpdate = now

\* the CHECK records of a region of a monitor inside the window of the
\* latest invocation
InWindow(id, r) ==
  {item \in checkItems : /\ item.monitorId = id
                         /\ item.region = r
                         /\ item.timestamp >= now - WindowMs
                         /\ item.timestamp <= now}
MostRecent(items) == CHOOSE x \in items : \A y \in items : y.timestamp <= x.timestamp
\* the entries of the collected list for a region
Collected(id, r) == {i \in DOMAIN checkResults[id] : checkResults[id][i].region = r}

\* C16: after an invocation, for every monitor and every region of the
\* monitor, whatever the number of regions and of records in the window:
\* the observation used in the vote is the most recent CHECK record of the
\* region inside the 90 000 ms window, and the region is absent from the
\* tally only when it has no record in the window.
C16_MostRecentPerRegion ==
  now > StoreStartTicks * TickMs =>
    \A id \in MonitorIds :
      \A r \in RegionSet(MonitorOf(id).regions) :
        IF InWindow(id, r) = {}
        THEN Collected(id, r) = {}
        ELSE /\ Cardinality(Collected(id, r)) = 1
             /\ \A i \in Collected(id, r) : checkResults[id][i] = MostRecent(InWindow(id, r))
             /\ r \in DOMAIN aggregated[id].regionStatuses
             /\ aggregated[id].regionStatuses[r].status = MostRecent(InWindow(id, r)).status

\* the LATENCY samples of the primary region of a monitor inside the
\* baseline window of the latest invocation
BaselineSamples(id) ==
  {item \in latencyItems :
     /\ item.monitorId = id
     /\ item.region = MonitorOf(id).primaryRegion
     /\ item.timestamp > now - MonitorOf(id).alerting.spikeDetection.baselineWindowMinutes * 60000
     /\ item.timestamp <= now}
\* the samples below a sample when they are ordered by latency
Below(S, x) ==
  {y \in S : \/ y.latency < x.latency
             \/ y.latency = x.latency /\ y.timestamp < x.timestamp}
\* twice the median: the sum of the two middle samples (the middle one
\* counted twice when the number of samples is odd)
TwiceMedian(S) ==
  LET n == Cardinality(S)
      lower == CHOOSE x \in S : Cardinality(Below(S, x)) = (n - 1) \div 2
      upper == CHOOSE x \in S : Cardinality(Below(S, x)) = n \div 2
  IN lower.latency + upper.latency
\* primary_latency > median * (1 + threshold_percent / 100)
AboveBaseline(id) ==
  aggregated[id].primaryLatency * 200 >
    TwiceMedian(BaselineSamples(id)) *
      (100 + MonitorOf(id).alerting.spikeDetection.thresholdPercent)

\* C20: when spike detection is enabled for a monitor, an invocation that
\* processes the monitor queues a spike notification if and only if the
\* primary region has at least 6 latency samples in the baseline window and
\* the primary latency is above the median of those samples times
\* (1 + threshold_percent / 100); with fewer than 6 samples none is queued.
C20_SpikeIffAboveBaseline ==
  \A id \in MonitorIds :
    (/\ MonitorOf(id).alerting.spikeDetection.enabled
     /\ now > StoreStartTicks * TickMs
     /\ ~IsNull(aggregated[id])) =>
      (Queued(notifications, id, "spike") # {} <=>
         /\ Cardinality(BaselineSamples(id)) >= 6
         /\ AboveBaseline(id))

\* the components that took the step
CheckerStep == <<probe, tasks, summary>>' # <<probe, tasks, summary>>
AggregatorStep == now' # now
\* the key spaces
ProbeKeys == {"CHECK", "LATENCY"}
AggregatorKeys == {"STATE", "INCIDENT"}

\* what a step of a component writes and what it leaves as it is
OwnershipStep ==
  /\ \A w \in writes' :
      \/ w.by = "probe" /\ w.pk[1] \in ProbeKeys
      \/ w.by = "aggregator" /\ w.pk[1] \in AggregatorKeys
  /\ CheckerStep =>
       /\ UNCHANGED <<stateItems, incidentItems, globalState>>
       /\ \A w \in writes' \ writes : w.by = "probe"
       /\ checkItems' # checkItems =>
            \E id \in MonitorIds : [by |-> "probe", pk |-> <<"CHECK", id>>] \in writes'
       /\ latencyItems' # latencyItems =>
            \E id \in MonitorIds :
              [by |-> "probe", pk |-> <<"LATENCY", id, probe.region>>] \in writes'
  /\ AggregatorStep =>
       /\ UNCHANGED <<checkItems, latencyItems>>
       /\ \A w \in writes' \ writes : w.by = "aggregator"
       /\ stateItems' # stateItems =>
            \E id \in MonitorIds : [by |-> "aggregator", pk |-> <<"STATE", id>>] \in writes'
       /\ incidentItems' # incidentItems =>
            \E id \in MonitorIds : [by |-> "aggregator", pk |-> <<"INCIDENT", id>>] \in writes'
       /\ globalState' # globalState =>
            [by |-> "aggregator", pk |-> <<"STATE", "GLOBAL">>] \in writes'
  /\ (~CheckerStep /\ ~AggregatorStep) =>
       UNCHANGED <<checkItems, latencyItems, stateItems, incidentItems, globalState,
                   writes>>

\* C15: every store write of a regional probe targets a key with pk prefix
\* CHECK# or LATENCY#, every store write of the aggregator a key with pk
\* prefix STATE# or INCIDENT# (STATE#GLOBAL included), the query layer
\* writes nothing; a step of a component leaves the items of the key
\* spaces it does not own as they are.
C15_KeySpaceOwnership == [][OwnershipStep]_vars

\* the checker wrote both records of a down result, the aggregator read
\* them and wrote the state, the incident and the summary, and the API
\* answered a status request from them
C15_Witness ==
  /\ \E item \in checkItems : item.status = "down"
  /\ latencyItems # {}
  /\ ~IsNull(stateItems["m1"]) /\ stateItems["m1"].status = "down"
  /\ incidentItems["m1"] # {}
  /\ ~IsNull(globalState)
  /\ {w.pk[1] : w \in writes} = {"CHECK", "LATENCY", "STATE", "INCIDENT"}
  /\ ~IsNull(response) /\ response.statusCode = 200 /\ response.down = 1

\* the check of the monitor failed under what the network did: the target
\* is not a URL (not host:port with a port number for a TCP monitor), the
\* lookup or the request raised an error, the status is not an expected
\* one, the required keyword is missing or the forbidden one present
CheckFailed(monitor, env) ==
  \/ env.dns # <<>>
  \/ env.request # <<>>
  \/ IF monitor.method = "TCP_PING"
     THEN monitor.target # "h:443"
     ELSE \/ monitor.target \notin {"https://h", "http://h"}
          \/ env.statusCode \notin 200..206
          \/ monitor.responseKeyword \notin env.body
          \/ monitor.responseForbiddenKeyword \in env.body

\* C18: for every monitor and every failure of the check itself (invalid
\* URL or target, DNS failure, connect error, timeout, unexpected status,
\* keyword mismatch), executeCheck does not throw but returns a result with
\* status down and a non-empty error, and the probe goes on to write that
\* result: once its writes succeeded the CHECK item of the run carries the
\* status and the error.
C18_FailureIsDownResult ==
  \A id \in DOMAIN tasks :
    (~IsNull(tasks[id].env) /\ CheckFailed(MonitorOf(id), tasks[id].env)) =>
      /\ ~tasks[id].result.thrown
      /\ tasks[id].result.status = "down"
      /\ Len(tasks[id].result.error) > 0
      /\ tasks[id].pc \in {"putLatency", "fulfilled"} =>
           \E item \in checkItems :
             /\ item.monitorId = id
             /\ item.region = probe.region
             /\ item.timestamp = probe.timestamp
             /\ item.status = "down"
             /\ item.error = tasks[id].result.error
             /\ item.latency = tasks[id].result.latency

\* in one run the request of the HTTP monitor timed out and the TCP monitor
\* has a target without a port number; both results are in the table
C18_Witness ==
  /\ DOMAIN tasks = {"m1", "m2"}
  /\ tasks["m1"].pc = "fulfilled"
  /\ tasks["m1"].env.request = <<"Connect", "Timeout", "Error">>
  /\ tasks["m2"].pc = "fulfilled"
  /\ MonitorOf("m2").target = "h"
  /\ \A id \in {"m1", "m2"} :
       \E item \in checkItems :
         item.monitorId = id /\ item.status = "down" /\ Len(item.error) > 0

\* the records of a task of the latest run are in the table
RecordsWritten(id) ==
  /\ CheckItemOf(id, probe.region, tasks[id].result, probe.timestamp) \in checkItems
  /\ LatencyItemOf(id, probe.region, tasks[id].result, probe.timestamp) \in latencyItems

\* C19: in a probe run the failure of one monitor's task (in the check or
\* in its store writes) does not prevent a sibling task from completing
\* its check and writing its CHECK and LATENCY records, in every
\* interleaving of the tasks: while the run is in progress every task that
\* has not ended can take its next step, and when the run returns every
\* task has ended, every task that did not fail has written both records,
\* and successful + failed is the number of monitors selected for the
\* region.
C19_SiblingsComplete ==
  /\ \A id \in DOMAIN tasks :
       /\ AtStep(id, "check") => ENABLED ExecuteCheck(id)
       /\ AtStep(id, "putCheck") => ENABLED PutCheck(id)
       /\ AtStep(id, "putLatency") => ENABLED PutLatency(id)
  /\ ~IsNull(summary) =>
       /\ DOMAIN tasks = {monitors[i].id : i \in {j \in DOMAIN monitors :
                             \E k \in DOMAIN monitors[j].regions :
                               monitors[j].regions[k] = probe.region}}
       /\ summary.successful + summary.failed = Cardinality(DOMAIN tasks)
       /\ \A id \in DOMAIN tasks :
            /\ tasks[id].pc \in {"fulfilled", "rejected"}
            /\ tasks[id].pc = "fulfilled" => RecordsWritten(id)
       /\ summary.successful = Cardinality({id \in DOMAIN tasks : RecordsWritten(id)})

\* the run of region A returned: the task of the first monitor failed in
\* its first store write, the task of the second one wrote both records
C19_Witness ==
  /\ ~IsNull(summary)
  /\ DOMAIN tasks = {"m1", "m2"}
  /\ tasks["m1"].pc = "rejected"
  /\ tasks["m2"].pc = "fulfilled"
  /\ RecordsWritten("m2")
  /\ summary.successful = 1
  /\ summary.failed = 1

\* the monitor's own grace period before a down notification, milliseconds
OwnDownGraceMs(id) ==
  (IF "downGracePeriod" \in DOMAIN MonitorOf(id).alerting
   THEN MonitorOf(id).alerting.downGracePeriod ELSE 5) * 60000

\* C24: the delay before a monitor's down notification is the monitor's
\* alerting.downGracePeriod in minutes (5 when not set): an invocation that
\* finds the monitor down queues its down notification exactly when
\* T - downSince reaches the monitor's own grace period for the first time,
\* so two monitors that differ only in downGracePeriod and see the same
\* observations are notified each at its own time.
C24_OwnDownGrace ==
  \A id \in MonitorIds :
    (/\ Processed(id)
     /\ faults[id] = "none"
     /\ StateOf(id).status = "down") =>
      (Queued(notifications, id, "down") # {} <=>
         /\ now - StateOf(id).downSince >= OwnDownGraceMs(id)
         /\ now - StateOf(id).downSince < OwnDownGraceMs(id) + TickMs)

\* C25: for every monitor checked from at least two regions with the
\* default vote threshold, records in which exactly one region is down
\* never aggregate to down: they aggregate to degraded.
C25_OneRegionDownIsDegraded ==
  \A id \in MonitorIds :
    (/\ ~IsNull(aggregated[id])
     /\ Len(MonitorOf(id).regions) >= 2
     /\ MonitorOf(id).alerting.downVoteThreshold = undefined
     /\ Cardinality({i \in DOMAIN checkResults[id] :
                       checkResults[id][i].status = "down"}) = 1)
    => aggregated[id].status = "degraded"

\* C26: after every invocation in which a monitor's status is up, the
\* stored state of the monitor has neither downSince nor lastNotifiedDown.
C26_UpClearsDownMarks ==
  \A id \in MonitorIds :
    (Processed(id) /\ StateOf(id).status = "up") =>
      /\ StateOf(id).downSince = undefined
      /\ StateOf(id).lastNotifiedDown = undefined

\* C27: every slow episode is announced on its own: when an earlier slow
\* episode of a notified monitor was announced and ended, and the monitor
\* has now been slow again for at least the slow grace period, exactly one
\* slow notification was sent in the present episode.
C27_SecondEpisodeAnnounced ==
  \A id \in MonitorIds :
    (/\ Notifying(id)
     /\ Truthy(MonitorOf(id).latencyThreshold)
     /\ Processed(id)
     /\ StateOf(id).slowSince # undefined
     /\ now - StateOf(id).slowSince >= SlowGraceMs(id)
     /\ \E n \in sent : /\ n.monitorId = id
                         /\ n.kind = "slow"
                         /\ n.t < StateOf(id).slowSince)
    => Cardinality(SentSince(id, "slow", StateOf(id).slowSince)) = 1

\* the configured monitors whose stored state has a status
Stored(status) ==
  {id \in MonitorIds : ~IsNull(stateItems[id]) /\ stateItems[id].status = status}

\* C28: after every invocation the counters of the global summary add up
\* to the number of configured monitors, and each counter is the number of
\* configured monitors whose stored state has that status, the monitors
\* without a recent observation or with an error in this invocation
\* included.
C28_SummaryCountsStored ==
  (~IsNull(globalState) /\ globalState.lastUpdate = now) =>
    /\ globalState.overallUp + globalState.overallDown + globalState.overallDegraded
         = Len(monitors)
    /\ globalState.overallDown = Cardinality(Stored("down"))
    /\ globalState.overallDegraded = Cardinality(Stored("degraded"))
    /\ globalState.overallUp >= Cardinality(Stored("up"))

\* C29: for each check result of a probe run the CHECK record is written
\* before the LATENCY record, and the LATENCY write is attempted only after
\* the CHECK write succeeded: a task that is about to write its LATENCY
\* record has its CHECK record in the table, and at every point in time
\* every LATENCY record has a CHECK record with the same monitor id,
\* region, timestamp, latency and ttl.
C29_CheckBeforeLatency ==
  /\ \A id \in DOMAIN tasks :
       AtStep(id, "putLatency") =>
         \E c \in checkItems :
           /\ c.monitorId = id /\ c.region = probe.region
           /\ c.timestamp = probe.timestamp
           /\ c.latency = tasks[id].result.latency
  /\ \A l \in latencyItems :
       \E c \in checkItems :
         /\ c.monitorId = l.monitorId /\ c.region = l.region
         /\ c.timestamp = l.timestamp /\ c.latency = l.latency
         /\ c.ttl = l.ttl

\* while the run of region A is in progress the first task has written
\* both records, the second one its CHECK record only
C29_Witness ==
  /\ Running
  /\ DOMAIN tasks = {"m1", "m2"}
  /\ tasks["m1"].pc = "fulfilled"
  /\ AtStep("m2", "putLatency")
  /\ \E l \in latencyItems : l.monitorId = "m1" /\ l.ttl = ttlOf(probe.timestamp)
  /\ \A l \in latencyItems : l.monitorId # "m2"
  /\ \E c \in checkItems : c.monitorId = "m2"

\* the CHECK records a monitor has with the timestamp of the latest run
RunRecords(id) ==
  {c \in checkItems : c.monitorId = id /\ c.timestamp = probe.timestamp}

\* the region is one of the monitor's regions
InRegion(monitor, region) ==
  \E k \in DOMAIN monitor.regions : monitor.regions[k] = region

\* C30: a probe run for region R executes a check for exactly the monitors
\* that have R among their regions, and when the run returns with every
\* task fulfilled the table has exactly one CHECK record of the run's
\* timestamp for each of these monitors, with region R, and none for any
\* other monitor.
C30_RegionMonitorsOnly ==
  ~IsNull(probe) =>
    /\ DOMAIN tasks = {monitors[i].id : i \in {j \in DOMAIN monitors :
                          InRegion(monitors[j], probe.region)}}
    /\ \A i \in DOMAIN monitors :
         ~InRegion(monitors[i], probe.region) => RunRecords(monitors[i].id) = {}
    /\ (~IsNull(summary) /\ summary.failed = 0) =>
         \A i \in DOMAIN monitors :
           InRegion(monitors[i], probe.region) =>
             /\ Cardinality(RunRecords(monitors[i].id)) = 1
             /\ \A c \in RunRecords(monitors[i].id) : c.region = probe.region

\* the run of region B returned without a failure: the monitor of the
\* regions A and B has one record, the monitor of region A has none
C30_Witness ==
  /\ ~IsNull(summary)
  /\ probe.region = "B"
  /\ summary.failed = 0
  /\ summary.monitorsChecked = 1
  /\ Cardinality(RunRecords("m2")) = 1
  /\ RunRecords("m1") = {}
  /\ Len(monitors) = 2

\* the handler answered a status request from the table
StatusReply ==
  ~IsNull(response) /\ response.statusCode = 200 /\ response.reads # {}

\* a window of the call's configuration has start <= now <= end, an absent
\* end being no upper bound, and has no list of monitors or lists the id
SomeWindow(call, id) ==
  \E i \in DOMAIN call.env.MAINTENANCES_CONFIG.items :
    LET w == call.env.MAINTENANCES_CONFIG.items[i]
    IN /\ getTime(w.start) # NaN /\ getTime(w.start) <= call.clock
       /\ Has(w, "end") => (getTime(w.end) # NaN /\ call.clock <= getTime(w.end))
       /\ Has(w, "monitors") => \E k \in DOMAIN w.monitors : w.monitors[k] = id

C22_FailuresAre500 ==
  (/\ ~IsNull(response)
   /\ \/ response.call.storeDown /\ response.reads # {}
      \/ response.rejected)
  => (response.statusCode = 500 /\ response.error # "")

\* the request has no Authorization header under either name, one that
\* does not start with Basic, or one whose credentials are not the
\* configured ones
BadAuthorization(call) ==
  LET headers == call.event.headers
  IN \/ ~Has(headers, "Authorization") /\ ~Has(headers, "authorization")
     \/ Has(headers, "Authorization") /\ headers.Authorization.scheme # "Basic "
     \/ Has(headers, "Authorization")
          /\ base64Decode(headers.Authorization.rest) # call.env.PASSWORD_PROTECTION
     \/ ~Has(headers, "Authorization") /\ Has(headers, "authorization")
          /\ \/ headers.authorization.scheme # "Basic "
             \/ base64Decode(headers.authorization.rest) # call.env.PASSWORD_PROTECTION

\* C23: with PASSWORD_PROTECTION configured every request other than
\* OPTIONS whose Authorization header is missing, is not a Basic header or
\* decodes to something else than the configured user:pass is answered 401
\* with no read of the store and no route handler run; an OPTIONS request
\* is answered 200 with the CORS headers before the authentication.
C23_UnauthorisedIs401 ==
  ~IsNull(response) =>
    /\ response.call.event.httpMethod = "OPTIONS" =>
         /\ response.statusCode = 200
         /\ corsHeaders \subseteq response.headers
         /\ response.reads = {}
    /\ (/\ response.call.event.httpMethod # "OPTIONS"
        /\ response.call.env.PASSWORD_PROTECTION # <<>>
        /\ BadAuthorization(response.call))
       => /\ response.statusCode = 401
          /\ response.reads = {}
          /\ ~response.rejected

\* a status request with the credentials u:q against the configured u:p
\* was answered 401 although the table has a state for the monitor
C23_Witness ==
  /\ ~IsNull(response)
  /\ response.call.event.httpMethod = "GET"
  /\ response.call.event.path = "/api/status"
  /\ response.call.env.PASSWORD_PROTECTION = <<117, 58, 112>>
  /\ Has(response.call.event.headers, "Authorization")
  /\ response.call.event.headers.Authorization.scheme = "Basic "
  /\ base64Decode(response.call.event.headers.Authorization.rest) = <<117, 58, 113>>
  /\ response.statusCode = 401
  /\ "WWW-Authenticate" \in response.headers
  /\ ~IsNull(stateItems["m1"])

\* the tasks of the latest run that checked an HTTP monitor and got a
\* response: the target is a URL, the lookup and the request succeeded
Responded ==
  {id \in DOMAIN tasks :
     /\ ~IsNull(tasks[id].env)
     /\ MonitorOf(id).method # "TCP_PING"
     /\ MonitorOf(id).target \in {"https://h", "http://h"}
     /\ tasks[id].env.dns = <<>> /\ tasks[id].env.request = <<>>}

\* C31: the response of an HTTP check is validated in the order status
\* code, required keyword, forbidden keyword, and the first check that
\* fails alone gives the error: an unexpected status code gives the error
\* HTTP <code> also when a keyword check would fail, a failed keyword check
\* gives status down with the measured total as latency and timing.total,
\* and a response that passes the three checks gives status up.
C31_FirstFailingCheck ==
  \A id \in Responded :
    LET monitor == MonitorOf(id)
        env == tasks[id].env
        result == tasks[id].result
    IN /\ result.latency = env.total /\ result.timing.total = env.total
       /\ IF env.statusCode \notin 200..206
          THEN /\ result.status = "down"
               /\ SubSeq(result.error, 1, 2) = <<"HTTP", ToString(env.statusCode)>>
          ELSE IF monitor.responseKeyword \notin env.body
          THEN /\ result.status = "down"
               /\ result.error = <<"Response", "missing", "required", "keyword:",
                                   monitor.responseKeyword>>
          ELSE IF monitor.responseForbiddenKeyword \in env.body
          THEN /\ result.status = "down"
               /\ result.error = <<"Response", "contains", "forbidden", "keyword:",
                                   monitor.responseForbiddenKeyword>>
          ELSE result.status = "up" /\ result.error = <<>>

\* the server answered 500 with a body that has the forbidden keyword and
\* not the required one, and the error of the result names the status code
C31_Witness ==
  /\ "m1" \in Responded
  /\ tasks["m1"].env.statusCode = 500
  /\ tasks["m1"].env.body = {"error"}
  /\ tasks["m1"].result.status = "down"
  /\ tasks["m1"].result.error[1] = "HTTP"
  /\ tasks["m1"].result.latency > 0

\* C32: in every result of an HTTP check all fields of TimingMetrics are
\* non-negative and total >= max(dnsLookup, tcpConnect + dnsLookup, ttfb),
\* for all non-negative durations of the lookup, of the request up to the
\* headers and of the reading of the body.
C32_TimingsNonNegative ==
  \A id \in DOMAIN tasks :
    (~IsNull(tasks[id].result) /\ MonitorOf(id).method # "TCP_PING") =>
      LET timing == tasks[id].result.timing
      IN /\ timing.dnsLookup >= 0 /\ timing.tcpConnect >= 0
         /\ timing.tlsHandshake >= 0 /\ timing.ttfb >= 0
         /\ timing.contentDownload >= 0 /\ timing.total >= 0
         /\ timing.total >= timing.dnsLookup
         /\ timing.total >= timing.tcpConnect + timing.dnsLookup
         /\ timing.total >= timing.ttfb

\* C33: the error of a failed HTTP check starts with the one category of
\* the transport error: DNS resolution failed for a failure of the
\* resolver, Host not found for ENOTFOUND, Connection refused for a refused
\* connection, Request timeout for every expired deadline, TLS/SSL error
\* for a certificate or handshake failure, and Connection failed, followed
\* by the raw message, for everything else.
C33_OneCategory ==
  \A id \in DOMAIN tasks :
    (/\ ~IsNull(tasks[id].env) /\ MonitorOf(id).method # "TCP_PING"
     /\ MonitorOf(id).target \in {"https://h", "http://h"}
     /\ tasks[id].env.dns # <<>> \/ tasks[id].env.request # <<>>)
    => LET raised == IF tasks[id].env.dns # <<>> THEN tasks[id].env.dns
                     ELSE tasks[id].env.request
       IN tasks[id].result.error[1] =
            IF raised = <<"getaddrinfo", "ENOTFOUND">> THEN "Host not found:"
            ELSE IF tasks[id].env.dns # <<>> THEN "DNS resolution failed:"
            ELSE IF raised = <<"connect", "ECONNREFUSED">> THEN "Connection refused:"
            ELSE IF raised = <<"Connect", "Timeout", "Error">> THEN "Request timeout:"
            ELSE IF raised = <<"certificate", "has", "expired">> THEN "TLS/SSL error:"
            ELSE "Connection failed:"

C35_PayloadCarriesMessage ==
  \A message \in sent :
    Cardinality({request \in requests : request.text = message}) = 1

\* an invocation in flight that has pushed a down notification
PushedDown(i) ==
  /\ invocations[i].pc # "idle"
  /\ \E k \in DOMAIN invocations[i].r.pushed : invocations[i].r.pushed[k].kind = "down"

\* no invocation that is in flight has written an up state: the monitor has
\* been down in the table since the first of the invocations wrote its state
C36_OneDownQueued == ~(\A i \in Invocations : PushedDown(i))

C36_ClosedStaysClosed ==
  \A id \in MonitorIds : \A incident \in incidentItems[id] :
    Truthy(incident.end) =>
      \E after \in incidentItems'[id] :
        after.start = incident.start /\ Truthy(after.end)

\* C36: when two invocations overlap on one monitor, under every
\* interleaving of their store reads and writes at most one down
\* notification is queued for one down episode, and an incident that one
\* invocation closed is not left open again by a write of the other.
C36_OverlapIsSafe == [](C36_OneDownQueued) /\ [][C36_ClosedStaysClosed]_vars

\* C37: an incident covers only a run of invocations in which the monitor's
\* aggregated status was down: when the status of a down monitor becomes
\* degraded or up, the incident of its down episode receives its end at
\* that invocation, so no degraded invocation lies inside an incident.
C37_IncidentEndsWhenNotDown ==
  [][\A id \in MonitorIds :
       (/\ ~IsNull(stateItems[id])
        /\ stateItems[id].status = "down"
        /\ ~IsNull(aggregated'[id])
        /\ aggregated'[id].status \in {"degraded", "up"})
       => \A incident \in incidentItems'[id] :
            incident.start = stateItems[id].downSince => incident.end = now']_vars

\* C38: every down episode for which a down notification was sent is
\* followed by exactly one recovery notification once the monitor's status
\* is up again, also when the status was degraded between down and up: a
\* monitor whose stored status is up has exactly one up notification since
\* its latest down notification.
C38_RecoveryAfterDown ==
  \A id \in MonitorIds :
    (/\ ~IsNull(stateItems[id])
     /\ stateItems[id].status = "up"
     /\ SentSince(id, "down", 0) # {})
    => Cardinality(SentSince(id, "up",
                             Max({n.t : n \in SentSince(id, "down", 0)}))) = 1

\* C39: an invocation that persists lastNotifiedDown or lastNotifiedSlow for
\* a monitor hands the corresponding message to sendNotification, and a
\* message handed to sendNotification has its mark persisted, also when a
\* later store command of the invocation (of another monitor, or the write
\* of the global summary) fails.
C39_MarkIffHandedOver ==
  \A id \in MonitorIds :
    /\ (~IsNull(stateItems[id]) /\ stateItems[id].lastNotifiedDown = now)
         <=> SentSince(id, "down", now) # {}
    /\ (~IsNull(stateItems[id]) /\ stateItems[id].lastNotifiedSlow = now)
         <=> SentSince(id, "slow", now) # {}

\* C40: what fetchFromAWS returns for a site with an explicit monitor list
\* depends only on the monitors of the list: a status body that agrees with
\* the loaded one on the listed monitors and differs in the states of other
\* monitors only gives the same state (counters, incident and latency maps),
\* monitors and maintenances.
C40_ListedMonitorsOnly ==
  (~IsNull(page) /\ page.data.siteConfig.monitors # <<"*">>) =>
    \A other \in BackendStatuses :
      (\A i \in DOMAIN page.data.siteConfig.monitors :
         other.monitors[page.data.siteConfig.monitors[i]]
           = page.statusData.monitors[page.data.siteConfig.monitors[i]])
      => LET data == fetchFromAWS(other, page.configData, page.data.siteConfig, page.clock)
         IN /\ data.state = page.data.state
            /\ data.monitors = page.data.monitors
            /\ data.maintenances = page.data.maintenances

====
